---- MODULE Spec2Model ----
(***************************************************************************)
(* Model of the missed-block retry pipeline                                *)
(* (src/src/patrol/chain_data/missed_block_retry_task.py):                 *)
(* MissedBlocksRetryTask.start / stop / _retry_loop / _retry_missed_blocks *)
(* with its producer task, its consumer task (consumer_event_queue) and    *)
(* the flush step (process_buffered_events).                               *)
(*                                                                         *)
(* Every asyncio task is a process with a position (lpc for the retry-loop *)
(* task, ppc for the producer task, cpc for the consumer task); one action *)
(* is the code between two suspension points.  The collaborators whose     *)
(* source is not part of src/ (EventFetcher.stream_all_events,             *)
(* EventProcessor.process_event_data, the two repositories) are modelled   *)
(* by what the pipeline observes of them: their results are chosen with \E *)
(* and each of them may raise.                                             *)
(*                                                                         *)
(* Environment: start() and stop() are called by one caller at a time (no  *)
(* call starts while a stop() is awaiting the loop task).  The position    *)
(* "between" of the loop task is the for loop of _retry_loop between two   *)
(* calls of _retry_missed_blocks; no await sits there, so start() and      *)
(* stop() do not run at it.  The events process_event_data returns carry   *)
(* block numbers of the flush they were made from.                         *)
(***************************************************************************)
EXTENDS Naturals, Sequences, FiniteSets, TLC

\* ---------------------------------------------------------------- bounds
\* Block numbers that can sit in the Missed-Block Store.
MaxBlock == 3
\* Largest buffer_size the constructor is given (default 5000 in the source).
MaxBufferSize == 2
\* Stand-in for block_retry_batch_size (1000 in the source, line 198).
block_retry_batch_size == 2
\* Stand-in for self.batch_size, the fetch chunk of the producer (default 25).
batch_size == 1
\* Pairs fed to the consumer under SpecConsumer, and the largest chunk fed.
MaxPairs == 5
MaxChunk == 3
\* Configured groups (GROUP_INIT_BLOCK has six), the largest max_retries the
\* client is constructed with (default 3), the query calls made and the pings
\* of the keepalive tasks that fail.
MaxGroup == 2
MaxRetries == 3
MaxQueries == 1
MaxPings == 1
\* Nodes and edges of the payloads given to validate_payload.
MaxNodes == 2
MaxEdges == 2
MaxLinks == 2
MaxParsed == 3
\* The largest block boundary of the runtime groups.
MaxBoundary == 4
\* The block numbers passed to fetch_all_events, the pairs passed to
\* get_block_events.
MaxInput == 3
\* Loop tasks that start() creates in one run.
MaxTasks == 3
\* validate_payload calls in flight on one validator.
MaxCalls == 2

Blocks == 1..MaxBlock

\* The end-of-stream marker the producer puts on the queue (None).
NoneItem == <<0>>

Finished == {"done", "failed", "cancelled"}

VARIABLES
    running,                \* self.running
    taskRef,                \* self._task is a task (TRUE) or None / unset (FALSE)
    stopPc,                 \* position of a stop() call: "idle" | "awaiting"
    lastOp,                 \* outcome of the last start()/stop() call
    lpc,                    \* position of the retry-loop task
    cancelReq,              \* cancel() was called on the loop task, not yet delivered
    pending,                \* a CancelledError is in flight through the finally block
    exitCause,              \* why the loop task ended
    missedStore,            \* block numbers in the Missed-Block Store
    all_missed_blocks,      \* sorted list read at Listing
    batches,                \* the batches passed to _retry_missed_blocks in this cycle, in order
    i,                      \* offset of the current batch in all_missed_blocks
    blocks_to_retry,        \* the current batch
    ppc,                    \* position of the producer task
    pidx,                   \* blocks of the batch the producer has handled
    queue,                  \* asyncio.Queue between producer and consumer
    missed_blocks,          \* the producer's fetch-failed list
    cpc,                    \* position of the consumer task
    buffer,                 \* the consumer's deque of pairs (their block numbers)
    buffer_size,            \* self.buffer_size
    successful_blocks,
    blocks_without_events,
    stored,                 \* blocks of events written by add_events calls that succeeded in this batch
    storageFailed,          \* blocks of events whose add_events call raised in this batch
    removed,                \* blocks passed to a remove_blocks call that succeeded in this batch
    addedFF,                \* blocks passed to add_missed_blocks(FETCH_FAILURE) in this batch
    addedNE,                \* blocks passed to add_missed_blocks(NO_EVENTS) in this batch
    faults,                 \* kinds of failure seen in this batch
    flushes,                \* the buffers handed to process_buffered_events, in order
    delivered,              \* the pairs the consumer took from the queue, in order
    orphans                 \* tasks of earlier batches that were left running

apiVars == <<running, taskRef, stopPc, lastOp>>
loopVars == <<lpc, cancelReq, pending, exitCause, all_missed_blocks, batches, i,
              blocks_to_retry>>
prodVars == <<ppc, pidx, missed_blocks>>
consVars == <<cpc, buffer, successful_blocks, blocks_without_events>>
logVars == <<stored, storageFailed, removed, addedFF, addedNE>>
pipelineVars == <<running, taskRef, stopPc, lastOp, lpc, cancelReq, pending, exitCause,
                  missedStore, all_missed_blocks, batches, i, blocks_to_retry, ppc, pidx, queue,
                  missed_blocks, cpc, buffer, buffer_size, successful_blocks,
                  blocks_without_events, stored, storageFailed, removed, addedFF, addedNE,
                  faults, flushes, delivered, orphans>>

\* ------------------------------------------- state of the connection pool
VARIABLES
    connections,            \* self.connections: group -> session id, 0 when the group has no entry
    sessions,               \* every AsyncSubstrateInterface created, in order of creation
    max_retries,            \* self.max_retries
    ipc,                    \* position of the initialize_connections call
    igroup,                 \* the group initialize_connections is working on
    kpc,                    \* position of the keepalive task of each group
    ksub,                   \* the local variable substrate of each keepalive task
    kstarted,               \* keepalive tasks created for each group
    pings,                  \* pings of the keepalive tasks that have failed
    qry                     \* the query calls: position and local variables of each

clientVars == <<connections, sessions, max_retries, ipc, igroup, kpc, ksub, kstarted,
                pings, qry>>

\* ---------------------------------------------- state of the graph validator
VARIABLES
    payload,                \* the payload argument of validate_payload
    target,                 \* the target argument of validate_payload
    graph_payload,          \* self.graph_payload
    vpc,                    \* position of the validate_payload call
    vresult,                \* what validate_payload returned
    vraised,                \* an exception left validate_payload
    vsteps,                 \* the validation steps that ran, in order
    block_numbers,          \* the block numbers passed to fetch_all_events
    processed_events,       \* the events process_event_data returned
    vconnected,             \* a direct call of verify_graph_connected: its
                            \* position and the exception it raised
    vparsed,                \* a direct call of parse_graph_payload: likewise
    calls                   \* validate_payload calls in flight on one instance: the
                            \* arguments, position and local variables of each

validatorVars == <<payload, target, graph_payload, vpc, vresult, vraised, vsteps,
                   block_numbers, processed_events, vconnected, vparsed, calls>>

\* ------------------------------------------------ state of the event fetcher
VARIABLES
    boundaries,             \* the block boundaries of the runtime groups
    gblock,                 \* group_block(block, current_block): the block
    ghead,                  \* the current block (chain head)
    gpc,                    \* position of the group_block call
    gresult,                \* the group returned: {} for None, else {group}
    finput,                 \* fetch_all_events(block_numbers): the argument
    fpc,                    \* position of the fetch_all_events call
    fresult,                \* the map fetch_all_events returned
    binfo,                  \* get_block_events(substrate, block_info): the pairs
    bfail,                  \* the pairs whose preprocessing fails
    bpc,                    \* position of the get_block_events call
    bresult,                \* the map get_block_events returned
    berror                  \* the message of the exception it raised

fetcherVars == <<boundaries, gblock, ghead, gpc, gresult, finput, fpc, fresult,
                 binfo, bfail, bpc, bresult, berror>>

\* ------------------------------- the loop tasks of MissedBlocksRetryTask
VARIABLES
    loops,                  \* position of every loop task start() has created, "none" before
    tracked,                \* the loop task self._task refers to, 0 for None
    awaited,                \* the loop task a stop() call awaits, 0 for none
    cancelling              \* loop tasks cancel() was called on, CancelledError not yet raised

lifecycleVars == <<loops, tracked, awaited, cancelling>>

vars == <<pipelineVars, clientVars, validatorVars, fetcherVars, lifecycleVars>>

\* ---------------------------------------------------------------- helpers
Range(s) == {s[k] : k \in DOMAIN s}

Min(S) == CHOOSE m \in S : \A x \in S : m <= x

MinNat(a, b) == IF a <= b THEN a ELSE b

RECURSIVE SortedSeq(_)
\* sorted(list(all_missed_blocks)), line 195
SortedSeq(S) == IF S = {} THEN <<>> ELSE <<Min(S)>> \o SortedSeq(S \ {Min(S)})

Take(s, n) == SubSeq(s, 1, MinNat(n, Len(s)))
Drop(s, n) == SubSeq(s, MinNat(n, Len(s)) + 1, Len(s))

RECURSIVE Flatten(_)
Flatten(ss) == IF ss = <<>> THEN <<>> ELSE Head(ss) \o Flatten(Tail(ss))

\* Variant of BatchSlice: the slice runs one element further.
BatchSliceOneMore(all, off) ==
    SubSeq(all, off + 1, MinNat(off + block_retry_batch_size + 1, Len(all)))

\* all_missed_blocks[i:i + block_retry_batch_size], line 201
BatchSlice(all, off) == SubSeq(all, off + 1, MinNat(off + block_retry_batch_size, Len(all)))

\* The pipeline before start(), with an empty store.
PipelineIdle ==
    /\ running = FALSE /\ taskRef = FALSE /\ stopPc = "idle" /\ lastOp = "none"
    /\ lpc = "none" /\ cancelReq = FALSE /\ pending = FALSE /\ exitCause = "none"
    /\ missedStore = {} /\ all_missed_blocks = <<>> /\ batches = <<>> /\ i = 0 /\ blocks_to_retry = <<>>
    /\ ppc = "none" /\ pidx = 0 /\ queue = <<>> /\ missed_blocks = {}
    /\ cpc = "none" /\ buffer = <<>> /\ buffer_size = 1
    /\ successful_blocks = {} /\ blocks_without_events = {}
    /\ stored = {} /\ storageFailed = {} /\ removed = {} /\ addedFF = {} /\ addedNE = {}
    /\ faults = {} /\ flushes = <<>> /\ delivered = <<>> /\ orphans = {}

Groups == 1..MaxGroup
Queries == 1..MaxQueries

\* The local state of a query call that has not been made: its position, the
\* group, the loop variable attempt, the session of the attempt in flight, the
\* errors list, and a record of what the call did: the session each attempt
\* ran on (0: the lookup failed), the back-off sleeps it made (in quarters of
\* a second), the number of failed attempts when the reinitialization
\* started, the sessions it closed and opened, how it ended.
NoQuery ==
    [pc |-> "none", group |-> 0, attempt |-> 0, substrate |-> 0, errors |-> <<>>,
     used |-> <<>>, delays |-> <<>>, reinit_at |-> <<>>, closed |-> <<>>,
     opened |-> <<>>, result |-> "none"]

\* SubstrateClient.__init__ (lines 29-33): an empty pool.
ClientNew(retries) ==
    /\ connections = [g \in Groups |-> 0]
    /\ sessions = <<>>
    /\ max_retries = retries
    /\ ipc = "none"
    /\ igroup = 0
    /\ kpc = [g \in Groups |-> "none"]
    /\ ksub = [g \in Groups |-> 0]
    /\ kstarted = [g \in Groups |-> 0]
    /\ pings = 0
    /\ qry = [q \in Queries |-> NoQuery]

\* The connection pool where it plays no part.
ClientIdle == ClientNew(1)

\* "None" stands for None: no target, no owner.
None == "None"

\* self.graph_payload = None (line 16); also the value of a result not yet
\* returned.
NoGraph == [kind |-> "none", nodes |-> <<>>, edges |-> <<>>, message |-> <<>>]

\* payload = None
NullPayload == [shape |-> "null", nodes |-> <<>>, edges |-> <<>>]

\* verify_graph_connected has not been called on its own.
NotCalled == [pc |-> "none", error |-> [class |-> "", message |-> <<>>]]

\* The validator where it plays no part.
ValidatorIdle ==
    /\ payload = NullPayload
    /\ target = None
    /\ graph_payload = NoGraph
    /\ vpc = "none"
    /\ vresult = NoGraph
    /\ vraised = FALSE
    /\ vsteps = <<>>
    /\ block_numbers = <<>>
    /\ processed_events = {}
    /\ vconnected = NotCalled
    /\ vparsed = NotCalled
    /\ calls = <<>>

\* The event fetcher where it plays no part.
FetcherIdle ==
    /\ boundaries = <<>>
    /\ gblock = 0
    /\ ghead = 0
    /\ gpc = "none"
    /\ gresult = {}
    /\ finput = <<>>
    /\ fpc = "none"
    /\ fresult = <<>>
    /\ binfo = <<>>
    /\ bfail = {}
    /\ bpc = "none"
    /\ bresult = <<>>
    /\ berror = <<>>

LifecycleIdle ==
    /\ loops = <<>> /\ tracked = 0 /\ awaited = 0 /\ cancelling = {}

Init ==
    /\ ClientIdle
    /\ ValidatorIdle
    /\ FetcherIdle
    /\ LifecycleIdle
    /\ running = FALSE
    /\ taskRef = FALSE
    /\ stopPc = "idle"
    /\ lastOp = "none"
    /\ lpc = "none"
    /\ cancelReq = FALSE
    /\ pending = FALSE
    /\ exitCause = "none"
    /\ missedStore \in SUBSET Blocks
    /\ all_missed_blocks = <<>>
    /\ batches = <<>>
    /\ i = 0
    /\ blocks_to_retry = <<>>
    /\ ppc = "none"
    /\ pidx = 0
    /\ queue = <<>>
    /\ missed_blocks = {}
    /\ cpc = "none"
    /\ buffer = <<>>
    /\ buffer_size \in 1..MaxBufferSize
    /\ successful_blocks = {}
    /\ blocks_without_events = {}
    /\ stored = {}
    /\ storageFailed = {}
    /\ removed = {}
    /\ addedFF = {}
    /\ addedNE = {}
    /\ faults = {}
    /\ flushes = <<>>
    /\ delivered = <<>>
    /\ orphans = {}
\* ------------------------------------------------- flush step (lines 87-122)
\* Variant of AfterStore: successful_blocks.extend placed after the try
\* statement, so that it also runs when add_events raised.
AfterStoreOutsideTry(successful, with_events, add_ok) ==
    successful \cup with_events

\* successful_blocks after the try/except around add_events (lines 110-117):
\* extended only when add_events returned.
AfterStore(successful, with_events, add_ok) ==
    IF add_ok THEN successful \cup with_events ELSE successful

\* Variant of WithoutEvents: every block of the flush is reported.
WithoutEventsAllKeys(to_process, with_events) ==
    to_process

\* The blocks the flush reports as having no events (lines 119-122).
WithoutEvents(to_process, with_events) ==
    IF Cardinality(to_process) # Cardinality(with_events)
    THEN to_process \ with_events
    ELSE {}

\* process_buffered_events(temp): to_process = dict(temp); process_event_data
\* returns events for the blocks with_events of it, or raises; add_events
\* stores them or raises a storage error, which is caught and logged.
process_buffered_events(temp, nextPc) ==
    /\ flushes' = Append(flushes, temp)
    /\ IF temp = <<>>
       THEN /\ cpc' = nextPc
            /\ UNCHANGED <<successful_blocks, blocks_without_events, stored,
                           storageFailed, faults>>
       ELSE LET to_process == Range(temp) IN
            \/ /\ cpc' = "failed"
               /\ faults' = faults \cup {"consumer"}
               /\ UNCHANGED <<successful_blocks, blocks_without_events, stored,
                              storageFailed>>
            \/ \E with_events \in SUBSET to_process, add_ok \in BOOLEAN :
               /\ cpc' = nextPc
               /\ (with_events = {}) => add_ok
               /\ successful_blocks' =
                      IF with_events # {}
                      THEN AfterStore(successful_blocks, with_events, add_ok)
                      ELSE successful_blocks
               /\ stored' = IF add_ok THEN stored \cup with_events ELSE stored
               /\ storageFailed' =
                      IF add_ok THEN storageFailed ELSE storageFailed \cup with_events
               /\ faults' = IF add_ok THEN faults ELSE faults \cup {"storage"}
               /\ blocks_without_events' =
                      blocks_without_events \cup WithoutEvents(to_process, with_events)

\* ------------------------------------------ consumer task (lines 124-139)
\* Variant of AfterExtend: while len(buffer) > self.buffer_size.
AfterExtendStrict(buf) == IF Len(buf) > buffer_size THEN "flush" ELSE "get"

\* The position after buffer.extend / after a flush: the inner while loop.
AfterExtend(buf) == IF Len(buf) >= buffer_size THEN "flush" ELSE "get"

\* events = await queue.get(); break on None, else buffer.extend(events.items())
ConsumerGet ==
    /\ cpc = "get"
    /\ queue # <<>>
    /\ queue' = Tail(queue)
    /\ IF Head(queue) = NoneItem
       THEN /\ cpc' = "final"
            /\ UNCHANGED <<buffer, delivered>>
       ELSE /\ buffer' = buffer \o Head(queue)
            /\ delivered' = delivered \o Head(queue)
            /\ cpc' = AfterExtend(buffer')
    /\ UNCHANGED <<successful_blocks, blocks_without_events, logVars, faults, flushes>>

\* temp_buffer = deque(buffer.popleft() for _ in range(self.buffer_size));
\* await process_buffered_events(temp_buffer)
ConsumerFlush ==
    /\ cpc = "flush"
    /\ buffer' = Drop(buffer, buffer_size)
    /\ process_buffered_events(Take(buffer, buffer_size), AfterExtend(buffer'))
    /\ UNCHANGED <<queue, delivered, removed, addedFF, addedNE>>

\* await process_buffered_events(buffer) after the end-of-stream marker
ConsumerFinal ==
    /\ cpc = "final"
    /\ process_buffered_events(buffer, "done")
    /\ UNCHANGED <<queue, buffer, delivered, removed, addedFF, addedNE>>

Consumer == ConsumerGet \/ ConsumerFlush \/ ConsumerFinal
\* ----------------------- producer task: event_fetcher.stream_all_events
\* The next fetch chunk of the batch: batch_size block numbers.
Chunk == SubSeq(blocks_to_retry, pidx + 1, MinNat(pidx + batch_size, Len(blocks_to_retry)))

\* The blocks of seq that are in S, in the order of seq.
RECURSIVE Keep(_, _)
Keep(seq, S) ==
    IF seq = <<>> THEN <<>>
    ELSE (IF Head(seq) \in S THEN <<Head(seq)>> ELSE <<>>) \o Keep(Tail(seq), S)

\* One chunk: the blocks fetched go on the queue as one (block -> events)
\* item, the others are collected in missed_blocks; the end-of-stream marker
\* follows the last chunk.
ProducerChunk ==
    /\ ppc = "run"
    /\ \E fetched \in SUBSET Range(Chunk) :
        LET last == pidx + Len(Chunk) >= Len(blocks_to_retry) IN
        /\ queue' = queue \o (IF fetched = {} THEN <<>> ELSE <<Keep(Chunk, fetched)>>)
                          \o (IF last THEN <<NoneItem>> ELSE <<>>)
        /\ missed_blocks' = missed_blocks \cup (Range(Chunk) \ fetched)
        /\ pidx' = pidx + Len(Chunk)
        /\ ppc' = IF last THEN "done" ELSE "run"
    /\ UNCHANGED <<apiVars, loopVars, missedStore, consVars, buffer_size, logVars,
                   faults, flushes, delivered, orphans>>
    /\ UNCHANGED <<clientVars, validatorVars, fetcherVars, lifecycleVars>>

\* The producer raises; whether the end-of-stream marker is still put depends
\* on the fetcher, so both happen.
ProducerRaise ==
    /\ ppc = "run"
    /\ ppc' = "failed"
    /\ faults' = faults \cup {"producer"}
    /\ \E marker \in BOOLEAN :
        queue' = IF marker THEN Append(queue, NoneItem) ELSE queue
    /\ UNCHANGED <<apiVars, loopVars, missedStore, pidx, missed_blocks, consVars,
                   buffer_size, logVars, flushes, delivered, orphans>>
    /\ UNCHANGED <<clientVars, validatorVars, fetcherVars, lifecycleVars>>

ConsumerStep ==
    /\ Consumer
    /\ UNCHANGED <<apiVars, loopVars, missedStore, prodVars, buffer_size, orphans>>
    /\ UNCHANGED <<clientVars, validatorVars, fetcherVars, lifecycleVars>>

\* ------------------------- _retry_missed_blocks, the parent (lines 141-180)
\* The finally block: the position after the try statement.
Finally(missed, without) ==
    IF missed # {} THEN "addFF" ELSE IF without # {} THEN "addNE" ELSE "exit"

\* Leaving _retry_missed_blocks: a CancelledError in flight ends the loop task,
\* else the for loop of _retry_loop goes on.
Leave(pc, cancelled) ==
    IF pc # "exit" THEN pc ELSE IF cancelled THEN "done" ELSE "between"

\* Common frame of a parent step that moves to position pc.
ParentGoes(pc, cancelled) ==
    /\ lpc' = Leave(pc, cancelled)
    /\ pending' = (cancelled /\ pc # "exit")
    /\ exitCause' = IF pc = "exit" /\ cancelled THEN "cancelled" ELSE exitCause
    /\ i' = IF pc = "exit" /\ ~cancelled THEN i + Len(blocks_to_retry) ELSE i

\* Variant of LoopFails: the except clause logs and leaves the flag alone.
LoopFailsKeepsRunning(cause) ==
    /\ lpc' = "done"
    /\ UNCHANGED running
    /\ exitCause' = cause
    /\ pending' = FALSE

\* An exception that leaves _retry_missed_blocks reaches the except clause of
\* _retry_loop (lines 212-214).
LoopFails(cause) ==
    /\ lpc' = "done"
    /\ running' = FALSE
    /\ exitCause' = cause
    /\ pending' = FALSE

\* await asyncio.gather(producer_task, consumer_task) returns: both finished.
GatherReturns ==
    /\ lpc = "gather" /\ ~cancelReq
    /\ ppc = "done" /\ cpc = "done"
    /\ ParentGoes(IF successful_blocks # {} THEN "remove"
                  ELSE Finally(missed_blocks, blocks_without_events), FALSE)
    /\ UNCHANGED <<apiVars, cancelReq, all_missed_blocks, batches, blocks_to_retry, missedStore,
                   prodVars, queue, consVars, buffer_size, logVars, faults, flushes,
                   delivered, orphans>>
    /\ UNCHANGED <<clientVars, validatorVars, fetcherVars, lifecycleVars>>

\* gather raises the first exception of a child; the other child keeps
\* running.  except Exception logs it.
GatherRaises ==
    /\ lpc = "gather" /\ ~cancelReq
    /\ ppc = "failed" \/ cpc = "failed"
    /\ ParentGoes(Finally(missed_blocks, blocks_without_events), FALSE)
    /\ UNCHANGED <<apiVars, cancelReq, all_missed_blocks, batches, blocks_to_retry, missedStore,
                   prodVars, queue, consVars, buffer_size, logVars, faults, flushes,
                   delivered, orphans>>
    /\ UNCHANGED <<clientVars, validatorVars, fetcherVars, lifecycleVars>>

\* await remove_blocks(list(set(successful_blocks))), or it raises (logged).
RemoveBlocks ==
    /\ lpc = "remove" /\ ~cancelReq
    /\ \E ok \in BOOLEAN :
        /\ missedStore' = IF ok THEN missedStore \ successful_blocks ELSE missedStore
        /\ removed' = IF ok THEN removed \cup successful_blocks ELSE removed
        /\ faults' = IF ok THEN faults ELSE faults \cup {"remove"}
    /\ ParentGoes(Finally(missed_blocks, blocks_without_events), FALSE)
    /\ UNCHANGED <<apiVars, cancelReq, all_missed_blocks, batches, blocks_to_retry, prodVars,
                   queue, consVars, buffer_size, stored, storageFailed, addedFF,
                   addedNE, flushes, delivered, orphans>>
    /\ UNCHANGED <<clientVars, validatorVars, fetcherVars, lifecycleVars>>

\* finally: await add_missed_blocks(missed_blocks, FETCH_FAILURE), or it raises.
AddFetchFailure ==
    /\ lpc = "addFF" /\ ~cancelReq
    /\ \/ /\ missedStore' = missedStore \cup missed_blocks
          /\ addedFF' = addedFF \cup missed_blocks
          /\ ParentGoes(Finally({}, blocks_without_events), pending)
          /\ UNCHANGED <<running, faults>>
       \/ /\ LoopFails("requeue_error")
          /\ faults' = faults \cup {"requeue"}
          /\ UNCHANGED <<missedStore, addedFF, i>>
    /\ UNCHANGED <<taskRef, stopPc, lastOp, cancelReq, all_missed_blocks, batches,
                   blocks_to_retry, prodVars, queue, consVars, buffer_size, stored,
                   storageFailed, removed, addedNE, flushes, delivered, orphans>>
    /\ UNCHANGED <<clientVars, validatorVars, fetcherVars, lifecycleVars>>

\* finally: await add_missed_blocks(blocks_without_events, NO_EVENTS), or it raises.
AddNoEvents ==
    /\ lpc = "addNE" /\ ~cancelReq
    /\ \/ /\ missedStore' = missedStore \cup blocks_without_events
          /\ addedNE' = addedNE \cup blocks_without_events
          /\ ParentGoes("exit", pending)
          /\ UNCHANGED <<running, faults>>
       \/ /\ LoopFails("requeue_error")
          /\ faults' = faults \cup {"requeue"}
          /\ UNCHANGED <<missedStore, addedNE, i>>
    /\ UNCHANGED <<taskRef, stopPc, lastOp, cancelReq, all_missed_blocks, batches,
                   blocks_to_retry, prodVars, queue, consVars, buffer_size, stored,
                   storageFailed, removed, addedFF, flushes, delivered, orphans>>
    /\ UNCHANGED <<clientVars, validatorVars, fetcherVars, lifecycleVars>>
\* --------------------------------------------- _retry_loop (lines 182-214)
\* await get_all_missed_blocks(), sorted; or it raises into the outer except.
LoopList ==
    /\ lpc = "list" /\ ~cancelReq
    /\ \/ /\ all_missed_blocks' = SortedSeq(missedStore)
          /\ batches' = <<>>
          /\ i' = 0
          /\ lpc' = IF missedStore = {} THEN "sleep" ELSE "between"
          /\ UNCHANGED <<running, exitCause, pending>>
       \/ /\ LoopFails("list_error")
          /\ UNCHANGED <<all_missed_blocks, batches, i>>
    /\ UNCHANGED <<taskRef, stopPc, lastOp, cancelReq, blocks_to_retry, missedStore,
                   prodVars, queue, consVars, buffer_size, logVars, faults, flushes,
                   delivered, orphans>>
    /\ UNCHANGED <<clientVars, validatorVars, fetcherVars, lifecycleVars>>

\* Tasks of the previous batch that have not finished when the next one starts.
LeftRunning ==
    (IF ppc = "run" THEN {"producer"} ELSE {})
        \cup (IF cpc \in {"get", "flush", "final"} THEN {"consumer"} ELSE {})

\* The for loop takes the next batch and calls _retry_missed_blocks(batch):
\* fresh queue and lists, producer and consumer tasks created, await gather.
StartBatch ==
    /\ lpc = "between"
    /\ i < Len(all_missed_blocks)
    /\ blocks_to_retry' = BatchSlice(all_missed_blocks, i)
    /\ batches' = Append(batches, BatchSlice(all_missed_blocks, i))
    /\ lpc' = "gather"
    /\ orphans' = orphans \cup LeftRunning
    /\ ppc' = "run" /\ pidx' = 0 /\ missed_blocks' = {}
    /\ queue' = <<>>
    /\ cpc' = "get" /\ buffer' = <<>>
    /\ successful_blocks' = {} /\ blocks_without_events' = {}
    /\ stored' = {} /\ storageFailed' = {} /\ removed' = {}
    /\ addedFF' = {} /\ addedNE' = {}
    /\ faults' = {} /\ flushes' = <<>> /\ delivered' = <<>>
    /\ UNCHANGED <<apiVars, cancelReq, pending, exitCause, all_missed_blocks, i,
                   missedStore, buffer_size>>
    /\ UNCHANGED <<clientVars, validatorVars, fetcherVars, lifecycleVars>>

\* The for loop is exhausted: await asyncio.sleep(wait_time).
GoSleep ==
    /\ lpc = "between"
    /\ i >= Len(all_missed_blocks)
    /\ lpc' = "sleep"
    /\ UNCHANGED <<apiVars, cancelReq, pending, exitCause, all_missed_blocks, batches, i,
                   blocks_to_retry, missedStore, prodVars, queue, consVars,
                   buffer_size, logVars, faults, flushes, delivered, orphans>>
    /\ UNCHANGED <<clientVars, validatorVars, fetcherVars, lifecycleVars>>

\* The sleep returns: while self.running.
LoopWake ==
    /\ lpc = "sleep" /\ ~cancelReq
    /\ lpc' = IF running THEN "list" ELSE "done"
    /\ exitCause' = IF running THEN exitCause ELSE "stopped"
    /\ UNCHANGED <<apiVars, cancelReq, pending, all_missed_blocks, batches, i, blocks_to_retry,
                   missedStore, prodVars, queue, consVars, buffer_size, logVars,
                   faults, flushes, delivered, orphans>>
    /\ UNCHANGED <<clientVars, validatorVars, fetcherVars, lifecycleVars>>

\* The CancelledError of stop() is raised in the loop task at the await it is
\* suspended in; except Exception does not catch it, the finally block runs.
LoopCancelled ==
    /\ cancelReq
    /\ lpc \in {"list", "sleep", "gather", "remove", "addFF", "addNE"}
    /\ cancelReq' = FALSE
    /\ IF lpc \in {"gather", "remove"}
       THEN ParentGoes(Finally(missed_blocks, blocks_without_events), TRUE)
       ELSE /\ lpc' = "done"
            /\ exitCause' = "cancelled"
            /\ pending' = FALSE
            /\ i' = i
    /\ UNCHANGED <<apiVars, all_missed_blocks, batches, blocks_to_retry, missedStore, prodVars,
                   queue, consVars, buffer_size, logVars, faults, flushes, delivered,
                   orphans>>
    /\ UNCHANGED <<clientVars, validatorVars, fetcherVars, lifecycleVars>>

\* -------------------------------------------- start / stop (lines 216-240)
\* Variant of Start without the "if self.running: return" guard.
StartUnguarded ==
    /\ stopPc = "idle"
    /\ lpc # "between"
    /\ running' = TRUE
    /\ taskRef' = TRUE
    /\ lastOp' = IF running THEN "start_ignored" ELSE "none"
    /\ lpc' = "list"
    /\ cancelReq' = FALSE
    /\ pending' = FALSE
    /\ exitCause' = "none"
    /\ all_missed_blocks' = <<>>
    /\ batches' = <<>>
    /\ i' = 0
    /\ blocks_to_retry' = <<>>
    /\ UNCHANGED <<stopPc, missedStore, prodVars, queue, consVars, buffer_size,
                   logVars, faults, flushes, delivered, orphans>>
    /\ UNCHANGED <<clientVars, validatorVars, fetcherVars, lifecycleVars>>

\* start(): a warning and nothing else when already running, else the flag is
\* set and the loop task created; the task runs up to its first await.
Start ==
    /\ stopPc = "idle"
    /\ lpc # "between"
    /\ IF running
       THEN /\ lastOp' = "start_ignored"
            /\ UNCHANGED <<running, taskRef, lpc, cancelReq, pending, exitCause,
                           all_missed_blocks, batches, i, blocks_to_retry>>
       ELSE /\ running' = TRUE
            /\ taskRef' = TRUE
            /\ lastOp' = "none"
            /\ lpc' = "list"
            /\ cancelReq' = FALSE
            /\ pending' = FALSE
            /\ exitCause' = "none"
            /\ all_missed_blocks' = <<>>
            /\ batches' = <<>>
            /\ i' = 0
            /\ blocks_to_retry' = <<>>
    /\ UNCHANGED <<stopPc, missedStore, prodVars, queue, consVars, buffer_size,
                   logVars, faults, flushes, delivered, orphans>>
    /\ UNCHANGED <<clientVars, validatorVars, fetcherVars, lifecycleVars>>

\* A child that task.cancel() reaches through the gather the loop task awaits.
CancelChild(pc, reached) ==
    IF reached /\ pc \notin (Finished \cup {"none"}) THEN "cancelled" ELSE pc

\* The loop task awaits a gather one child of which has failed while the other
\* still runs.
GatherFailing ==
    /\ lpc = "gather"
    /\ ppc = "failed" \/ cpc = "failed"
    /\ LeftRunning # {}

\* stop() up to its await: nothing when not running; else the flag is cleared
\* and self._task.cancel() is called.  Cancelling a task that awaits a gather
\* cancels the children still running and raises CancelledError in the task,
\* with two exceptions when a child has already failed: if the gather future
\* has completed with that exception, only the task is cancelled and the other
\* child is not reached; if it has not completed yet, the other child is
\* cancelled but the task is woken with the child's exception, and the
\* cancellation is lost.
StopBegin ==
    /\ stopPc = "idle"
    /\ lpc # "between"
    /\ IF ~running
       THEN /\ lastOp' = "stop_ignored"
            /\ UNCHANGED <<running, stopPc, cancelReq, ppc, cpc>>
       ELSE /\ running' = FALSE
            /\ lastOp' = "none"
            /\ stopPc' = "awaiting"
            /\ \E completed \in BOOLEAN :
               /\ ~GatherFailing => completed
               /\ cancelReq' = (GatherFailing => completed)
               /\ LET reached == lpc = "gather" /\ (GatherFailing => ~completed) IN
                  /\ ppc' = CancelChild(ppc, reached)
                  /\ cpc' = CancelChild(cpc, reached)
    /\ UNCHANGED <<taskRef, lpc, pending, exitCause, all_missed_blocks, batches, i,
                   blocks_to_retry, missedStore, pidx, missed_blocks, queue, buffer,
                   successful_blocks, blocks_without_events, buffer_size, logVars,
                   faults, flushes, delivered, orphans>>
    /\ UNCHANGED <<clientVars, validatorVars, fetcherVars, lifecycleVars>>

\* stop() after await self._task: self._task = None.
StopReturn ==
    /\ stopPc = "awaiting"
    /\ lpc = "done"
    /\ stopPc' = "idle"
    /\ taskRef' = FALSE
    /\ UNCHANGED <<running, lastOp, loopVars, missedStore, prodVars, queue, consVars,
                   buffer_size, logVars, faults, flushes, delivered, orphans>>
    /\ UNCHANGED <<clientVars, validatorVars, fetcherVars, lifecycleVars>>

Next ==
    \/ Start
    \/ StopBegin
    \/ StopReturn
    \/ LoopList
    \/ StartBatch
    \/ GoSleep
    \/ LoopWake
    \/ LoopCancelled
    \/ ProducerChunk
    \/ ProducerRaise
    \/ ConsumerStep
    \/ GatherReturns
    \/ GatherRaises
    \/ RemoveBlocks
    \/ AddFetchFailure
    \/ AddNoEvents

Spec == Init /\ [][Next]_vars
\* ------------------------------------- start / stop with several loop tasks
\* start() and stop() called at any await of each other (lines 216-240), with
\* every loop task start() has created kept apart.  A loop task is at the
\* await of get_all_missed_blocks ("list"), inside _retry_missed_blocks
\* ("batch"), in the finally block of a batch with a CancelledError in flight
\* ("finally"), in asyncio.sleep ("sleep"), or ended ("done").
Tasks == 1..MaxTasks

Alive == {t \in Tasks : loops[t] \notin {"none", "done"}}

Created == {t \in Tasks : loops[t] # "none"}

InitLifecycle ==
    /\ PipelineIdle
    /\ ClientIdle
    /\ ValidatorIdle
    /\ FetcherIdle
    /\ loops = [t \in Tasks |-> "none"]
    /\ tracked = 0
    /\ awaited = 0
    /\ cancelling = {}

LifecycleFrame ==
    /\ UNCHANGED <<loopVars, missedStore, prodVars, queue, consVars, buffer_size,
                   logVars, faults, flushes, delivered, orphans>>
    /\ UNCHANGED <<clientVars, validatorVars, fetcherVars>>

\* start(), lines 216-224: self._task is overwritten with the new task.
StartCall ==
    /\ Cardinality(Created) < MaxTasks
    /\ IF running
       THEN /\ lastOp' = "start_ignored"
            /\ UNCHANGED <<running, taskRef, loops, tracked>>
       ELSE /\ running' = TRUE
            /\ lastOp' = "none"
            /\ taskRef' = TRUE
            /\ tracked' = Cardinality(Created) + 1
            /\ loops' = [loops EXCEPT ![Cardinality(Created) + 1] = "list"]
    /\ UNCHANGED <<stopPc, awaited, cancelling>>
    /\ LifecycleFrame

\* stop() up to its await, lines 226-235; one stop() call at a time.  With
\* self._task None nothing is cancelled or awaited.  The cancellation of a
\* task inside a batch can be lost (see StopBegin).
StopCall ==
    /\ stopPc = "idle"
    /\ IF ~running
       THEN /\ lastOp' = "stop_ignored"
            /\ UNCHANGED <<running, stopPc, awaited, cancelling>>
       ELSE /\ running' = FALSE
            /\ lastOp' = "none"
            /\ IF tracked = 0
               THEN UNCHANGED <<stopPc, awaited, cancelling>>
               ELSE /\ stopPc' = "awaiting"
                    /\ awaited' = tracked
                    /\ \E lost \in BOOLEAN :
                          /\ lost => loops[tracked] = "batch"
                          /\ cancelling' =
                                 IF lost \/ tracked \notin Alive
                                 THEN cancelling
                                 ELSE cancelling \cup {tracked}
    /\ UNCHANGED <<taskRef, loops, tracked>>
    /\ LifecycleFrame

\* stop() after await self._task, lines 235-240: self._task = None, whatever
\* task it refers to by now.
StopResume ==
    /\ stopPc = "awaiting"
    /\ loops[awaited] = "done"
    /\ stopPc' = "idle"
    /\ awaited' = 0
    /\ tracked' = 0
    /\ taskRef' = FALSE
    /\ UNCHANGED <<running, lastOp, loops, cancelling>>
    /\ LifecycleFrame

\* get_all_missed_blocks returns (a batch follows, or the sleep when the store
\* is empty) or raises into the except clause of _retry_loop.
TaskList(t) ==
    /\ loops[t] = "list" /\ t \notin cancelling
    /\ \/ /\ \E pc \in {"batch", "sleep"} : loops' = [loops EXCEPT ![t] = pc]
          /\ UNCHANGED running
       \/ /\ loops' = [loops EXCEPT ![t] = "done"]
          /\ running' = FALSE
    /\ UNCHANGED <<taskRef, stopPc, lastOp, tracked, awaited, cancelling>>
    /\ LifecycleFrame

\* _retry_missed_blocks returns (next batch or the sleep) or an exception of
\* its finally block reaches the except clause of _retry_loop.
TaskBatch(t) ==
    /\ loops[t] = "batch" /\ t \notin cancelling
    /\ \/ /\ \E pc \in {"batch", "sleep"} : loops' = [loops EXCEPT ![t] = pc]
          /\ UNCHANGED running
       \/ /\ loops' = [loops EXCEPT ![t] = "done"]
          /\ running' = FALSE
    /\ UNCHANGED <<taskRef, stopPc, lastOp, tracked, awaited, cancelling>>
    /\ LifecycleFrame

\* The sleep returns: while self.running.
TaskWake(t) ==
    /\ loops[t] = "sleep" /\ t \notin cancelling
    /\ loops' = [loops EXCEPT ![t] = IF running THEN "list" ELSE "done"]
    /\ UNCHANGED <<running, taskRef, stopPc, lastOp, tracked, awaited, cancelling>>
    /\ LifecycleFrame

\* CancelledError is raised at the await the task is suspended in; inside a
\* batch the finally block runs first and awaits add_missed_blocks when it
\* has blocks to record.
TaskCancelled(t) ==
    /\ t \in cancelling
    /\ loops[t] \in {"list", "batch", "sleep"}
    /\ cancelling' = cancelling \ {t}
    /\ \E pc \in {"finally", "done"} :
          /\ pc = "finally" => loops[t] = "batch"
          /\ loops' = [loops EXCEPT ![t] = pc]
    /\ UNCHANGED <<running, taskRef, stopPc, lastOp, tracked, awaited>>
    /\ LifecycleFrame

\* The finally block is done, the CancelledError ends the task.
TaskUnwound(t) ==
    /\ loops[t] = "finally"
    /\ loops' = [loops EXCEPT ![t] = "done"]
    /\ UNCHANGED <<running, taskRef, stopPc, lastOp, tracked, awaited, cancelling>>
    /\ LifecycleFrame

NextLifecycle ==
    \/ StartCall
    \/ StopCall
    \/ StopResume
    \/ \E t \in Tasks : TaskList(t)
    \/ \E t \in Tasks : TaskBatch(t)
    \/ \E t \in Tasks : TaskWake(t)
    \/ \E t \in Tasks : TaskCancelled(t)
    \/ \E t \in Tasks : TaskUnwound(t)

SpecLifecycle == InitLifecycle /\ [][NextLifecycle]_vars

\* ------------------------------------------------- the consumer on its own
\* The consumer fed a stream of pairs in chunks of any sizes, then the
\* end-of-stream marker (what stream_all_events does to the queue).
InitConsumer ==
    /\ ClientIdle
    /\ ValidatorIdle
    /\ FetcherIdle
    /\ LifecycleIdle
    /\ running = TRUE
    /\ taskRef = TRUE
    /\ stopPc = "idle"
    /\ lastOp = "none"
    /\ lpc = "gather"
    /\ cancelReq = FALSE
    /\ pending = FALSE
    /\ exitCause = "none"
    /\ missedStore = {}
    /\ all_missed_blocks = <<>>
    /\ batches = <<>>
    /\ i = 0
    /\ blocks_to_retry = <<>>
    /\ ppc = "run"
    /\ pidx = 0
    /\ queue = <<>>
    /\ missed_blocks = {}
    /\ cpc = "get"
    /\ buffer = <<>>
    /\ buffer_size \in 1..MaxBufferSize
    /\ successful_blocks = {}
    /\ blocks_without_events = {}
    /\ stored = {}
    /\ storageFailed = {}
    /\ removed = {}
    /\ addedFF = {}
    /\ addedNE = {}
    /\ faults = {}
    /\ flushes = <<>>
    /\ delivered = <<>>
    /\ orphans = {}

\* await queue.put(events): one chunk of k pairs, keyed pidx+1 .. pidx+k.
Feed ==
    /\ ppc = "run"
    /\ \E k \in 1..MaxChunk :
        /\ pidx + k <= MaxPairs
        /\ queue' = Append(queue, [j \in 1..k |-> pidx + j])
        /\ pidx' = pidx + k
    /\ UNCHANGED <<apiVars, loopVars, missedStore, ppc, missed_blocks, consVars,
                   buffer_size, logVars, faults, flushes, delivered, orphans>>
    /\ UNCHANGED <<clientVars, validatorVars, fetcherVars, lifecycleVars>>

\* await queue.put(None)
FeedEnd ==
    /\ ppc = "run"
    /\ queue' = Append(queue, NoneItem)
    /\ ppc' = "done"
    /\ UNCHANGED <<apiVars, loopVars, missedStore, pidx, missed_blocks, consVars,
                   buffer_size, logVars, faults, flushes, delivered, orphans>>
    /\ UNCHANGED <<clientVars, validatorVars, fetcherVars, lifecycleVars>>

NextConsumer ==
    \/ Feed
    \/ FeedEnd
    \/ ConsumerStep

SpecConsumer == InitConsumer /\ [][NextConsumer]_vars
\* ============================== connection pool (chain_data/substrate_client.py)
\* Every await of the client is where its tasks interleave: one action is the
\* code of a call or of a keepalive task between two of them.  The sessions
\* (AsyncSubstrateInterface) are outside src/: each call on one returns or
\* raises, except close(), which returns and marks it closed.
\* initialize_connections is called once, as in the example at the end of the
\* source file.

\* self.groups: group id -> initial block number.
groups == [g \in Groups |-> 10 * g]

\* _create_connection: the session it returns, anchored (init_runtime) at the
\* block hash of the group's initial block.
create_connection(group) == [block |-> groups[group], closed |-> FALSE]

\* existing_substrate.close()
Close(ss, id) == [ss EXCEPT ![id].closed = TRUE]

\* errors.append(e): the errors carry the number of the attempt they ended.
AppendError(errors, e) == Append(errors, e)

\* The texts of the exceptions a query_func call raises, as pieces; and
\* str(KeyError(group)), the text of a failed lookup.
ErrorTexts == {<<"Connection closed">>, <<"HTTP ", "429", " Too Many Requests">>}

LookupText(group) == <<ToString(group)>>

\* "429" in str(e), line 115
Has429(text) == \E k \in DOMAIN text : text[k] = "429"

\* Variant of Backoff: the escalating delay counts attempts from 0.
BackoffFromZero(attempt, text) == IF Has429(text) THEN 8 * attempt ELSE 1

\* The argument of asyncio.sleep at lines 115-118, in quarters of a second:
\* 2 * (attempt + 1) seconds, or 0.25.
Backoff(attempt, text) == IF Has429(text) THEN 8 * (attempt + 1) ELSE 1

\* Variant of ReinitAttempt: one attempt earlier.
ReinitAttemptEarly == max_retries - 3

\* The attempt after which query reinitializes the connection (line 120).
ReinitAttempt == max_retries - 2

\* The top of the for loop of query with loop variable r.attempt: the loop is
\* over (line 125), or get_connection returns the pool entry and the method is
\* invoked on it, or the group has no entry and _reinitialize_connection fails
\* on self.connections[group] (line 60), which the except clause catches.
NextIteration(r, pool) ==
    IF r.attempt >= max_retries
    THEN [r EXCEPT !.pc = "raised", !.result = "exhausted", !.substrate = 0]
    ELSE IF pool[r.group] # 0
    THEN [r EXCEPT !.pc = "attempt", !.substrate = pool[r.group],
                   !.used = Append(@, pool[r.group])]
    ELSE [r EXCEPT !.pc = "backoff", !.substrate = 0,
                   !.used = Append(@, 0),
                   !.errors = AppendError(@, <<r.attempt + 1, "lookup",
                                                LookupText(r.group)>>),
                   !.delays = Append(@, Backoff(r.attempt, LookupText(r.group)))]

\* An exception that leaves query from inside its except clause.
Escapes(r) == [r EXCEPT !.pc = "raised", !.result = "escaped", !.substrate = 0]

\* query(group, method_name) is called for a configured group.
QueryCall ==
    /\ \E q \in Queries, g \in Groups :
        /\ qry[q].pc = "none"
        /\ qry' = [qry EXCEPT ![q] = NextIteration([NoQuery EXCEPT !.group = g],
                                                   connections)]
    /\ UNCHANGED <<connections, sessions, max_retries, ipc, igroup, kpc, ksub,
                   kstarted, pings>>
    /\ UNCHANGED <<pipelineVars, validatorVars, fetcherVars, lifecycleVars>>

\* return await query_func(*args, **kwargs)
QueryReturns ==
    /\ \E q \in Queries :
        /\ qry[q].pc = "attempt"
        /\ qry' = [qry EXCEPT ![q].pc = "returned", ![q].result = "value"]
    /\ UNCHANGED <<connections, sessions, max_retries, ipc, igroup, kpc, ksub,
                   kstarted, pings>>
    /\ UNCHANGED <<pipelineVars, validatorVars, fetcherVars, lifecycleVars>>

\* query_func raises: errors.append(e), then the back-off sleep begins.
QueryFails ==
    /\ \E q \in Queries :
        /\ qry[q].pc = "attempt"
        /\ \E text \in ErrorTexts :
              qry' = [qry EXCEPT ![q].pc = "backoff",
                                 ![q].errors = AppendError(@, <<qry[q].attempt + 1,
                                                               "error", text>>),
                                 ![q].delays = Append(@, Backoff(qry[q].attempt, text))]
    /\ UNCHANGED <<connections, sessions, max_retries, ipc, igroup, kpc, ksub,
                   kstarted, pings>>
    /\ UNCHANGED <<pipelineVars, validatorVars, fetcherVars, lifecycleVars>>

\* The sleep is over.  At attempt max_retries - 2 _reinitialize_connection
\* starts: existing_substrate = self.connections[group] (a KeyError when the
\* group has no entry) and close() on it; else the next iteration.
QueryBackoff ==
    /\ \E q \in Queries :
        LET r == qry[q]
            starts == [r EXCEPT !.reinit_at = Append(@, Len(r.errors))]
        IN
        /\ r.pc = "backoff"
        /\ IF r.attempt # ReinitAttempt
           THEN /\ qry' = [qry EXCEPT ![q] =
                              NextIteration([r EXCEPT !.attempt = @ + 1], connections)]
                /\ UNCHANGED sessions
           ELSE IF connections[r.group] = 0
           THEN /\ qry' = [qry EXCEPT ![q] = Escapes(starts)]
                /\ UNCHANGED sessions
           ELSE /\ sessions' = Close(sessions, connections[r.group])
                /\ qry' = [qry EXCEPT ![q] =
                              [starts EXCEPT !.pc = "reinit",
                                             !.closed = Append(@, connections[r.group])]]
    /\ UNCHANGED <<connections, max_retries, ipc, igroup, kpc, ksub, kstarted, pings>>
    /\ UNCHANGED <<pipelineVars, validatorVars, fetcherVars, lifecycleVars>>

\* _create_connection of the reinitialization returns and the pool entry is
\* replaced (line 123), then the next iteration; or it raises.
QueryReinit ==
    /\ \E q \in Queries :
        LET r == qry[q] IN
        /\ r.pc = "reinit"
        /\ \/ /\ sessions' = Append(sessions, create_connection(r.group))
              /\ connections' = [connections EXCEPT ![r.group] = Len(sessions')]
              /\ qry' = [qry EXCEPT ![q] =
                            NextIteration([r EXCEPT !.attempt = @ + 1,
                                                    !.opened = Append(@, Len(sessions'))],
                                          connections')]
           \/ /\ qry' = [qry EXCEPT ![q] = Escapes(r)]
              /\ UNCHANGED <<connections, sessions>>
    /\ UNCHANGED <<max_retries, ipc, igroup, kpc, ksub, kstarted, pings>>
    /\ UNCHANGED <<pipelineVars, validatorVars, fetcherVars, lifecycleVars>>

\* initialize_connections() is called: the first group of self.groups.
InitCall ==
    /\ ipc = "none"
    /\ ipc' = "run"
    /\ igroup' = 1
    /\ UNCHANGED <<connections, sessions, max_retries, kpc, ksub, kstarted, pings, qry>>
    /\ UNCHANGED <<pipelineVars, validatorVars, fetcherVars, lifecycleVars>>

\* Variant of KeepaliveStarted: the tasks are created for the first group only.
KeepaliveStartedFirstOnly(started, group) ==
    IF group = 1 THEN [started EXCEPT ![group] = @ + 1] ELSE started

\* asyncio.create_task(self._keepalive_task(group, substrate)), line 54
KeepaliveStarted(started, group) == [started EXCEPT ![group] = @ + 1]

\* _create_connection(group) returns: the pool entry is set and the keepalive
\* task of the group created; or it raises out of initialize_connections.
InitCreate ==
    /\ ipc = "run"
    /\ \/ /\ sessions' = Append(sessions, create_connection(igroup))
          /\ connections' = [connections EXCEPT ![igroup] = Len(sessions')]
          /\ kstarted' = KeepaliveStarted(kstarted, igroup)
          /\ kpc' = [kpc EXCEPT ![igroup] =
                        IF kstarted'[igroup] > kstarted[igroup] THEN "ping" ELSE @]
          /\ ksub' = [ksub EXCEPT ![igroup] = Len(sessions')]
          /\ igroup' = igroup + 1
          /\ ipc' = IF igroup = MaxGroup THEN "done" ELSE "run"
       \/ /\ ipc' = "failed"
          /\ UNCHANGED <<connections, sessions, igroup, kpc, ksub, kstarted>>
    /\ UNCHANGED <<max_retries, pings, qry>>
    /\ UNCHANGED <<pipelineVars, validatorVars, fetcherVars, lifecycleVars>>

\* The ping of a keepalive task (line 76) raises and _reinitialize_connection
\* starts: close() on the pool entry.  A ping that returns changes nothing:
\* the task sleeps and pings again.
KeepalivePing ==
    /\ \E g \in Groups :
        /\ kpc[g] = "ping"
        /\ pings < MaxPings
        /\ pings' = pings + 1
        /\ sessions' = Close(sessions, connections[g])
        /\ kpc' = [kpc EXCEPT ![g] = "reinit"]
    /\ UNCHANGED <<connections, max_retries, ipc, igroup, ksub, kstarted, qry>>
    /\ UNCHANGED <<pipelineVars, validatorVars, fetcherVars, lifecycleVars>>

\* _create_connection of the keepalive's reinitialization returns (lines
\* 80-81), the finally clause sleeps and the loop pings the new session; or it
\* raises inside the except clause: the finally clause sleeps and the
\* exception ends the task.
KeepaliveReinit ==
    /\ \E g \in Groups :
        /\ kpc[g] = "reinit"
        /\ \/ /\ sessions' = Append(sessions, create_connection(g))
              /\ connections' = [connections EXCEPT ![g] = Len(sessions')]
              /\ ksub' = [ksub EXCEPT ![g] = Len(sessions')]
              /\ kpc' = [kpc EXCEPT ![g] = "ping"]
           \/ /\ kpc' = [kpc EXCEPT ![g] = "dead"]
              /\ UNCHANGED <<connections, sessions, ksub>>
    /\ UNCHANGED <<max_retries, ipc, igroup, kstarted, pings, qry>>
    /\ UNCHANGED <<pipelineVars, validatorVars, fetcherVars, lifecycleVars>>

InitClient ==
    /\ PipelineIdle
    /\ ValidatorIdle
    /\ FetcherIdle
    /\ LifecycleIdle
    /\ \E retries \in 1..MaxRetries : ClientNew(retries)

NextClient ==
    \/ InitCall
    \/ InitCreate
    \/ KeepalivePing
    \/ KeepaliveReinit
    \/ QueryCall
    \/ QueryReturns
    \/ QueryFails
    \/ QueryBackoff
    \/ QueryReinit

SpecClient == InitClient /\ [][NextClient]_vars
\* ===== graph validator (validation/graph_validation/bittensor_validation_mechanism.py)
\* validate_payload runs without suspension up to the await of
\* fetch_all_events in verify_edge_data, and from the events to its return:
\* two actions.  The classes of patrol.protocol and the event fetcher and
\* processor are outside src/: Node, Edge and the evidence classes accept the
\* payloads drawn here, fetch_all_events and process_event_data return events
\* or raise.  An exception is a record of its class and message, a message is
\* the sequence of the pieces of its text; no exception is the record NoError.

\* The account ids of payloads.
Ids == {"A", "B"}

NoError == [class |-> "", message |-> <<>>]

Raise(class, message) == [class |-> class, message |-> message]

\* ErrorPayload(message=f"Error: {str(e)}"), line 37
ErrorPayload(message) ==
    [kind |-> "error", nodes |-> <<>>, edges |-> <<>>, message |-> <<"Error: ">> \o message]

\* GraphPayload(nodes=nodes, edges=edges), line 107
GraphPayload(nodes, edges) ==
    [kind |-> "graph", nodes |-> nodes, edges |-> edges, message |-> <<>>]

\* Variant of DuplicateKey: the owner is part of the key.
DuplicateKeyWithOwner(edge) ==
    <<edge.coldkey_source, edge.coldkey_destination, edge.coldkey_owner,
      edge.category, edge.type, edge.evidence.rao_amount,
      edge.evidence.block_number>>

\* The key of the duplicate-edge check (lines 68-75).
DuplicateKey(edge) ==
    <<edge.coldkey_source, edge.coldkey_destination, edge.category, edge.type,
      edge.evidence.rao_amount, edge.evidence.block_number>>


\* The Edge appended for an input edge (lines 82-102): a balance edge without
\* its owner, a staking edge with it, nothing for any other category.
ParsedEdge(edge) ==
    IF edge.category = "balance"
    THEN <<[edge EXCEPT !.coldkey_owner = None]>>
    ELSE IF edge.category = "staking" THEN <<edge>> ELSE <<>>

\* The loop over payload['nodes'] (lines 53-59).
RECURSIVE ParseNodes(_, _)
ParseNodes(nodes, seen_nodes) ==
    IF nodes = <<>> THEN NoError
    ELSE IF Head(nodes) \in seen_nodes
    THEN Raise("PayloadValidationError", <<"Duplicate node detected: ", Head(nodes)>>)
    ELSE ParseNodes(Tail(nodes), seen_nodes \cup {Head(nodes)})

\* The loop over payload['edges'] (lines 61-102): the error and the edges built.
RECURSIVE ParseEdges(_, _, _)
ParseEdges(edges, seen_edges, built) ==
    IF edges = <<>> THEN [error |-> NoError, edges |-> built]
    ELSE LET edge == Head(edges) IN
         IF edge.evidence.missing
         THEN [error |-> Raise("PayloadValidationError",
                               <<"Edge is missing the 'evidence' field.">>),
               edges |-> built]
         ELSE IF DuplicateKey(edge) \in seen_edges
         THEN [error |-> Raise("PayloadValidationError", <<"Duplicate edge detected">>),
               edges |-> built]
         ELSE ParseEdges(Tail(edges), seen_edges \cup {DuplicateKey(edge)},
                         built \o ParsedEdge(edge))

\* parse_graph_payload(payload): the error it raises and the GraphPayload it
\* stores.  A payload without the key 'nodes' raises KeyError, which the
\* except TypeError clause of line 104 does not catch.
parse_graph_payload(p) ==
    IF p.shape = "malformed"
    THEN [error |-> Raise("KeyError", <<"'nodes'">>), graph |-> GraphPayload(<<>>, <<>>)]
    ELSE IF ParseNodes(p.nodes, {}) # NoError
    THEN [error |-> ParseNodes(p.nodes, {}), graph |-> GraphPayload(<<>>, <<>>)]
    ELSE LET parsed == ParseEdges(p.edges, {}, <<>>) IN
         [error |-> parsed.error, graph |-> GraphPayload(p.nodes, parsed.edges)]

\* Variant of find_target: the owner of an edge is not compared.
find_targetWithoutOwner(graph, t) ==
    \E k \in DOMAIN graph.edges :
        \/ graph.edges[k].coldkey_destination = t
        \/ graph.edges[k].coldkey_source = t

\* find_target (lines 111-119)
find_target(graph, t) ==
    \E k \in DOMAIN graph.edges :
        \/ graph.edges[k].coldkey_destination = t
        \/ graph.edges[k].coldkey_source = t
        \/ graph.edges[k].coldkey_owner = t

\* verify_target_in_graph (lines 109-122)
verify_target_in_graph(graph, t) ==
    IF find_target(graph, t) THEN NoError
    ELSE Raise("PayloadValidationError", <<"Target not found in payload.">>)

\* find(x) with its path compression (lines 132-135): the parent map after
\* the call, in which the entry of x is the root of x.
RECURSIVE find(_, _)
find(parent, x) ==
    IF parent[x] # x
    THEN LET compressed == find(parent, parent[x]) IN
         [compressed EXCEPT ![x] = compressed[parent[x]]]
    ELSE parent

\* Variant of union: the node y, not its root, is attached to the root of x.
unionAttachesNode(parent, x, y) ==
    LET withX == find(parent, x)
        withY == find(withX, y)
    IN  IF withX[x] # withY[y] THEN [withY EXCEPT ![y] = withX[x]] ELSE withY

\* union(x, y) (lines 137-141): the parent map after the call.
union(parent, x, y) ==
    LET withX == find(parent, x)
        withY == find(withX, y)
    IN  IF withX[x] # withY[y] THEN [withY EXCEPT ![withY[y]] = withX[x]] ELSE withY

\* The loop over the edges (lines 148-162): the error and the parent map.
RECURSIVE UnionEdges(_, _)
UnionEdges(parent, edges) ==
    IF edges = <<>> THEN [error |-> NoError, parent |-> parent]
    ELSE LET src == Head(edges).coldkey_source
             dst == Head(edges).coldkey_destination
             own == Head(edges).coldkey_owner
         IN  IF src \notin DOMAIN parent \/ dst \notin DOMAIN parent
             THEN [error |-> Raise("ValueError", <<"Edge refers to a node not in the payload">>),
                   parent |-> parent]
             ELSE IF own = None
             THEN UnionEdges(union(parent, src, dst), Tail(edges))
             ELSE IF own \notin DOMAIN parent
             THEN [error |-> Raise("ValueError",
                                   <<"Edge owner refers to a node not in the payload">>),
                   parent |-> parent]
             ELSE UnionEdges(union(union(union(parent, src, dst), src, own), dst, own),
                             Tail(edges))

\* verify_graph_connected (lines 124-167)
verify_graph_connected(graph) ==
    LET joined == UnionEdges([n \in Range(graph.nodes) |-> n], graph.edges)
        roots == {find(joined.parent, n)[n] : n \in Range(graph.nodes)}
    IN  IF joined.error # NoError THEN joined.error
        ELSE IF Cardinality(roots) # 1
        THEN Raise("ValueError", <<"Graph is not fully connected.">>)
        ELSE NoError

\* The key of an on-chain event (lines 185-199): json.dumps with sorted keys
\* of these twelve fields, as their tuple.
event_key(event) ==
    <<event.coldkey_source, event.coldkey_destination, event.coldkey_owner,
      event.category, event.type, event.evidence.rao_amount,
      event.evidence.block_number, event.evidence.destination_net_uid,
      event.evidence.source_net_uid, event.evidence.alpha_amount,
      event.evidence.delegate_hotkey_source,
      event.evidence.delegate_hotkey_destination>>

\* Variant of edge_key: the owner is not part of the key.
edge_key_without_owner(edge) ==
    <<edge.coldkey_source, edge.coldkey_destination, None,
      edge.category, edge.type, edge.evidence.rao_amount,
      edge.evidence.block_number, edge.evidence.destination_net_uid,
      edge.evidence.source_net_uid, edge.evidence.alpha_amount,
      edge.evidence.delegate_hotkey_source,
      edge.evidence.delegate_hotkey_destination>>

\* The key of a claimed edge (lines 205-219).
edge_key(edge) ==
    <<edge.coldkey_source, edge.coldkey_destination, edge.coldkey_owner,
      edge.category, edge.type, edge.evidence.rao_amount,
      edge.evidence.block_number, edge.evidence.destination_net_uid,
      edge.evidence.source_net_uid, edge.evidence.alpha_amount,
      edge.evidence.delegate_hotkey_source,
      edge.evidence.delegate_hotkey_destination>>

\* missing_edges (lines 203-222): the positions of the edges not matched.
missing_edges(graph, events) ==
    {k \in DOMAIN graph.edges :
        edge_key(graph.edges[k]) \notin {event_key(ev) : ev \in events}}

\* verify_edge_data from the processed events on (lines 180-227)
verify_edge_data(graph, events) ==
    IF missing_edges(graph, events) # {}
    THEN Raise("PayloadValidationError",
               <<ToString(Cardinality(missing_edges(graph, events))),
                 " edges not found in on-chain events.">>)
    ELSE NoError

\* Variant of FirstSteps: the connectivity step runs before the target step.
FirstStepsConnectedFirst(p, t) ==
    IF p.shape \in {"null", "empty"}
    THEN [error |-> Raise("PayloadValidationError", <<"Empty/Null Payload recieved.">>),
          graph |-> NoGraph, steps |-> <<"null">>]
    ELSE LET parsed == parse_graph_payload(p) IN
         IF parsed.error # NoError
         THEN [error |-> parsed.error, graph |-> NoGraph, steps |-> <<"null", "parse">>]
         ELSE IF verify_graph_connected(parsed.graph) # NoError
         THEN [error |-> verify_graph_connected(parsed.graph), graph |-> parsed.graph,
               steps |-> <<"null", "parse", "connected">>]
         ELSE IF verify_target_in_graph(parsed.graph, t) # NoError
         THEN [error |-> verify_target_in_graph(parsed.graph, t), graph |-> parsed.graph,
               steps |-> <<"null", "parse", "connected", "target">>]
         ELSE [error |-> NoError, graph |-> parsed.graph,
               steps |-> <<"null", "parse", "connected", "target", "edge_data">>]

\* The steps of validate_payload before its await (lines 25-33 and 171-174):
\* the first error, the GraphPayload parse stored, the steps that ran.
FirstSteps(p, t) ==
    IF p.shape \in {"null", "empty"}
    THEN [error |-> Raise("PayloadValidationError", <<"Empty/Null Payload recieved.">>),
          graph |-> NoGraph, steps |-> <<"null">>]
    ELSE LET parsed == parse_graph_payload(p) IN
         IF parsed.error # NoError
         THEN [error |-> parsed.error, graph |-> NoGraph, steps |-> <<"null", "parse">>]
         ELSE IF verify_target_in_graph(parsed.graph, t) # NoError
         THEN [error |-> verify_target_in_graph(parsed.graph, t), graph |-> parsed.graph,
               steps |-> <<"null", "parse", "target">>]
         ELSE IF verify_graph_connected(parsed.graph) # NoError
         THEN [error |-> verify_graph_connected(parsed.graph), graph |-> parsed.graph,
               steps |-> <<"null", "parse", "target", "connected">>]
         ELSE [error |-> NoError, graph |-> parsed.graph,
               steps |-> <<"null", "parse", "target", "connected", "edge_data">>]

\* Variant of Caught: except PayloadValidationError.
CaughtValidationErrorOnly(error) == error.class = "PayloadValidationError"

\* except Exception (line 35): the classes raised here all derive from it.
Caught(error) ==
    error.class \in {"PayloadValidationError", "ValueError", "KeyError", "Exception"}

\* Variant of Handle: the except clause leaves self.graph_payload as it is.
HandleKeepsGraph(error, current) ==
    /\ graph_payload' = current
    /\ vresult' = current
    /\ vpc' = "returned"
    /\ UNCHANGED vraised

\* An exception raised inside the try statement: the except clause replaces
\* self.graph_payload by an ErrorPayload and the call returns it (lines
\* 35-42); an exception it does not catch leaves the call.
Handle(error, current) ==
    IF Caught(error)
    THEN /\ graph_payload' = ErrorPayload(error.message)
         /\ vresult' = graph_payload'
         /\ vpc' = "returned"
         /\ UNCHANGED vraised
    ELSE /\ graph_payload' = current
         /\ vraised' = TRUE
         /\ vpc' = "raised"
         /\ UNCHANGED vresult

\* validate_payload(uid, payload, target) is called and runs to the await of
\* fetch_all_events, or to its return when a step before it fails.
ValidateCall ==
    /\ vpc = "none"
    /\ LET first == FirstSteps(payload, target) IN
       /\ vsteps' = first.steps
       /\ IF first.error = NoError
          THEN /\ graph_payload' = first.graph
               /\ block_numbers' = [k \in DOMAIN first.graph.edges |->
                                       first.graph.edges[k].evidence.block_number]
               /\ vpc' = "fetch"
               /\ UNCHANGED <<vresult, vraised>>
          ELSE /\ Handle(first.error,
                         IF first.graph = NoGraph THEN graph_payload ELSE first.graph)
               /\ UNCHANGED block_numbers
    /\ UNCHANGED <<payload, target, processed_events, vconnected, vparsed, calls>>
    /\ UNCHANGED <<pipelineVars, clientVars, fetcherVars, lifecycleVars>>

\* The events the fetcher and the processor can return for the claimed edges:
\* for each edge the event that matches it or, for the edges at the positions
\* miss, an event that differs from it in the owner or in a staking field of
\* the evidence, or no event at all.
OtherOwner(edge) ==
    [edge EXCEPT !.coldkey_owner = IF @ = None THEN "A" ELSE None]

OtherAlpha(edge) == [edge EXCEPT !.evidence.alpha_amount = @ + 1]

NearMisses == {"owner", "alpha", "absent"}

Events(edges, miss, how) ==
    {edges[k] : k \in DOMAIN edges \ miss}
    \cup (IF how = "owner" THEN {OtherOwner(edges[k]) : k \in miss}
          ELSE IF how = "alpha" THEN {OtherAlpha(edges[k]) : k \in miss}
          ELSE {})

\* fetch_all_events and process_event_data have returned, or one of them
\* raised: the rest of verify_edge_data on self.graph_payload, and the return.
ValidateFetched ==
    /\ vpc = "fetch"
    /\ \/ \E miss \in SUBSET DOMAIN graph_payload.edges, how \in NearMisses :
          LET events == Events(graph_payload.edges, miss, how) IN
            /\ processed_events' = events
            /\ IF verify_edge_data(graph_payload, events) = NoError
               THEN /\ vresult' = graph_payload
                    /\ vpc' = "returned"
                    /\ UNCHANGED <<graph_payload, vraised>>
               ELSE Handle(verify_edge_data(graph_payload, events), graph_payload)
       \/ /\ Handle(Raise("Exception", <<"fetch failed">>), graph_payload)
          /\ UNCHANGED processed_events
    /\ UNCHANGED <<payload, target, vsteps, block_numbers, vconnected, vparsed, calls>>
    /\ UNCHANGED <<pipelineVars, clientVars, fetcherVars, lifecycleVars>>

\* A numeric field of the evidence that is absent (None in the keys).
Null == 0

\* The evidence of a staking edge at a block, as in the tests.
StakeEvidence(block) ==
    [missing |-> FALSE, rao_amount |-> 10, block_number |-> block,
     destination_net_uid |-> 1, source_net_uid |-> Null, alpha_amount |-> 1,
     delegate_hotkey_source |-> None, delegate_hotkey_destination |-> "B"]

\* The evidence of a balance edge at a block: amount and block number.
TransferEvidence(block) ==
    [missing |-> FALSE, rao_amount |-> 10, block_number |-> block,
     destination_net_uid |-> Null, source_net_uid |-> Null, alpha_amount |-> Null,
     delegate_hotkey_source |-> None, delegate_hotkey_destination |-> None]

\* An edge without the 'evidence' field.
NoEvidence ==
    [missing |-> TRUE, rao_amount |-> Null, block_number |-> Null,
     destination_net_uid |-> Null, source_net_uid |-> Null, alpha_amount |-> Null,
     delegate_hotkey_source |-> None, delegate_hotkey_destination |-> None]

\* Sequences over S of length at most n.
SeqsUpTo(S, n) == UNION {[1..k -> S] : k \in 0..n}

\* The payloads validate_payload is given: None, an empty dict, a dict
\* without 'nodes', graphs of at most MaxNodes nodes and MaxEdges edges into
\* the account B, and graphs with an edge that has no 'evidence' field.
PayloadEdges ==
    [coldkey_source : Ids, coldkey_destination : {"B"}, coldkey_owner : {None, "A"},
     category : {"staking", "other"}, type : {"add"},
     evidence : {StakeEvidence(1)}]
    \cup [coldkey_source : Ids, coldkey_destination : {"B"},
          coldkey_owner : {None, "A"}, category : {"balance"},
          type : {"transfer"}, evidence : {TransferEvidence(1)}]

Payloads ==
    {NullPayload,
     [shape |-> "empty", nodes |-> <<>>, edges |-> <<>>],
     [shape |-> "malformed", nodes |-> <<>>, edges |-> <<>>]}
    \cup {[shape |-> "graph", nodes |-> n, edges |-> e] :
             n \in SeqsUpTo(Ids, MaxNodes), e \in SeqsUpTo(PayloadEdges, MaxEdges)}
    \cup {[shape |-> "graph", nodes |-> <<"A", "B">>,
           edges |-> <<[e EXCEPT !.evidence = NoEvidence]>>] : e \in PayloadEdges}

\* BittensorValidationMechanism.__init__ (lines 15-18) and the arguments of
\* the call.
InitValidate ==
    /\ PipelineIdle
    /\ ClientIdle
    /\ FetcherIdle
    /\ LifecycleIdle
    /\ payload \in Payloads
    /\ target \in Ids \cup {None}
    /\ graph_payload = NoGraph
    /\ vpc = "none"
    /\ vresult = NoGraph
    /\ vraised = FALSE
    /\ vsteps = <<>>
    /\ block_numbers = <<>>
    /\ processed_events = {}
    /\ vconnected = NotCalled
    /\ vparsed = NotCalled
    /\ calls = <<>>

NextValidate ==
    \/ ValidateCall
    \/ ValidateFetched

SpecValidate == InitValidate /\ [][NextValidate]_vars
\* ------------------------------------- verify_graph_connected on its own
\* The tests set self.graph_payload and call verify_graph_connected directly.

NodeIds == {"A", "B", "C"}

\* Lists of declared nodes.
NodeLists ==
    {<<>>, <<"A">>, <<"B">>, <<"C">>, <<"A", "B">>, <<"A", "C">>, <<"B", "C">>,
     <<"A", "B", "C">>}

\* Edges between the ids, without owner or owned by C.
LinkEdges ==
    [coldkey_source : NodeIds, coldkey_destination : NodeIds,
     coldkey_owner : {None, "C"}, category : {"staking"}, type : {"add"},
     evidence : {StakeEvidence(1)}]

InitConnected ==
    /\ PipelineIdle
    /\ ClientIdle
    /\ FetcherIdle
    /\ LifecycleIdle
    /\ payload = NullPayload
    /\ target = None
    /\ graph_payload \in {GraphPayload(n, e) :
                              n \in NodeLists, e \in SeqsUpTo(LinkEdges, MaxLinks)}
    /\ vpc = "none"
    /\ vresult = NoGraph
    /\ vraised = FALSE
    /\ vsteps = <<>>
    /\ block_numbers = <<>>
    /\ processed_events = {}
    /\ vconnected = NotCalled
    /\ vparsed = NotCalled
    /\ calls = <<>>

\* validator.verify_graph_connected() returns or raises.
VerifyGraphConnected ==
    /\ vconnected.pc = "none"
    /\ graph_payload.kind = "graph"
    /\ vconnected' =
          [pc |-> IF verify_graph_connected(graph_payload) = NoError
                  THEN "returned" ELSE "raised",
           error |-> verify_graph_connected(graph_payload)]
    /\ UNCHANGED <<payload, target, graph_payload, vpc, vresult, vraised, vsteps,
                   block_numbers, processed_events, vparsed, calls>>
    /\ UNCHANGED <<pipelineVars, clientVars, fetcherVars, lifecycleVars>>

NextConnected ==
    \/ VerifyGraphConnected

SpecConnected == InitConnected /\ [][NextConnected]_vars

\* --------------------------------------- parse_graph_payload on its own
\* The tests call parse_graph_payload(payload) directly.

\* The edges of the payloads parsed: a stake of A at B, the same claimed with
\* an owner, a stake of B, a transfer from A to B, and an edge without the
\* 'evidence' field.
ParsedShapes ==
    {[coldkey_source |-> "A", coldkey_destination |-> "B", coldkey_owner |-> None,
      category |-> "staking", type |-> "add", evidence |-> StakeEvidence(1)],
     [coldkey_source |-> "A", coldkey_destination |-> "B", coldkey_owner |-> "A",
      category |-> "staking", type |-> "add", evidence |-> StakeEvidence(1)],
     [coldkey_source |-> "B", coldkey_destination |-> "B", coldkey_owner |-> None,
      category |-> "staking", type |-> "add", evidence |-> StakeEvidence(1)],
     [coldkey_source |-> "A", coldkey_destination |-> "B", coldkey_owner |-> None,
      category |-> "balance", type |-> "transfer", evidence |-> TransferEvidence(1)],
     [coldkey_source |-> "A", coldkey_destination |-> "B", coldkey_owner |-> None,
      category |-> "other", type |-> "add", evidence |-> StakeEvidence(1)],
     [coldkey_source |-> "A", coldkey_destination |-> "B", coldkey_owner |-> None,
      category |-> "staking", type |-> "add", evidence |-> NoEvidence]}

InitParse ==
    /\ PipelineIdle
    /\ ClientIdle
    /\ FetcherIdle
    /\ LifecycleIdle
    /\ payload \in {[shape |-> "graph", nodes |-> n, edges |-> e] :
                      n \in SeqsUpTo(Ids, MaxParsed),
                      e \in SeqsUpTo(ParsedShapes, MaxParsed)}
    /\ target = None
    /\ graph_payload = NoGraph
    /\ vpc = "none"
    /\ vresult = NoGraph
    /\ vraised = FALSE
    /\ vsteps = <<>>
    /\ block_numbers = <<>>
    /\ processed_events = {}
    /\ vconnected = NotCalled
    /\ vparsed = NotCalled
    /\ calls = <<>>

\* validator.parse_graph_payload(payload) returns, self.graph_payload set
\* (line 107), or raises.
ParseGraphPayload ==
    /\ vparsed.pc = "none"
    /\ payload.shape = "graph"
    /\ LET parsed == parse_graph_payload(payload) IN
       /\ vparsed' = [pc |-> IF parsed.error = NoError THEN "returned" ELSE "raised",
                      error |-> parsed.error]
       /\ graph_payload' = IF parsed.error = NoError THEN parsed.graph
                           ELSE graph_payload
    /\ UNCHANGED <<payload, target, vpc, vresult, vraised, vsteps, block_numbers,
                   processed_events, vconnected, calls>>
    /\ UNCHANGED <<pipelineVars, clientVars, fetcherVars, lifecycleVars>>

NextParse ==
    \/ ParseGraphPayload

SpecParse == InitParse /\ [][NextParse]_vars

\* ------------------------- several validate_payload calls on one validator
\* Each call runs to the await of fetch_all_events (line 176) and resumes
\* when its events are there; between the two any other call can run.
\* self.graph_payload is the one field of the instance all calls write.
Calls == 1..MaxCalls

\* The payloads of the calls: None, and graphs of the nodes A and B with one
\* edge.
CallEdges ==
    {[coldkey_source |-> src, coldkey_destination |-> "B", coldkey_owner |-> None,
      category |-> "staking", type |-> "add", evidence |-> StakeEvidence(1)] :
         src \in Ids}
    \cup {[coldkey_source |-> "A", coldkey_destination |-> "B", coldkey_owner |-> None,
           category |-> "balance", type |-> "transfer",
           evidence |-> TransferEvidence(1)]}

CallPayloads ==
    {NullPayload}
    \cup {[shape |-> "graph", nodes |-> <<"A", "B">>, edges |-> <<e>>] : e \in CallEdges}

NoCall(p, t) ==
    [pc |-> "none", payload |-> p, target |-> t, events |-> {}, fetched |-> FALSE,
     result |-> NoGraph]

\* The value validate_payload returns for a payload and a target when the
\* fetch gave these events (fetched) or raised, the call being alone.
Alone(p, t, events, fetched) ==
    LET first == FirstSteps(p, t) IN
    IF first.error # NoError THEN ErrorPayload(first.error.message)
    ELSE IF ~fetched THEN ErrorPayload(<<"fetch failed">>)
    ELSE IF verify_edge_data(first.graph, events) # NoError
    THEN ErrorPayload(verify_edge_data(first.graph, events).message)
    ELSE first.graph

InitCalls ==
    /\ PipelineIdle
    /\ ClientIdle
    /\ FetcherIdle
    /\ LifecycleIdle
    /\ payload = NullPayload
    /\ target = None
    /\ graph_payload = NoGraph
    /\ vpc = "none"
    /\ vresult = NoGraph
    /\ vraised = FALSE
    /\ vsteps = <<>>
    /\ block_numbers = <<>>
    /\ processed_events = {}
    /\ vconnected = NotCalled
    /\ vparsed = NotCalled
    /\ calls \in [Calls -> {NoCall(p, t) : p \in CallPayloads, t \in Ids}]

CallsFrame ==
    /\ UNCHANGED <<payload, target, vpc, vresult, vraised, vsteps, block_numbers,
                   processed_events, vconnected, vparsed>>
    /\ UNCHANGED <<pipelineVars, clientVars, fetcherVars, lifecycleVars>>

\* A call runs lines 24-33 up to the await of line 176, or to its return
\* (lines 35-42) when a step before the await raised.
CallBegins(c) ==
    /\ calls[c].pc = "none"
    /\ LET first == FirstSteps(calls[c].payload, calls[c].target) IN
       IF first.error = NoError
       THEN /\ graph_payload' = first.graph
            /\ calls' = [calls EXCEPT ![c].pc = "fetch"]
       ELSE /\ graph_payload' = ErrorPayload(first.error.message)
            /\ calls' = [calls EXCEPT ![c].pc = "returned",
                                      ![c].result = graph_payload']
    /\ CallsFrame

\* The events of the call's own block numbers are there, or the fetch
\* raised: lines 178-225 on self.graph_payload as it is now (an ErrorPayload
\* has no edges: AttributeError), then lines 35-42.
CallResumes(c) ==
    /\ calls[c].pc = "fetch"
    /\ LET own == FirstSteps(calls[c].payload, calls[c].target).graph IN
       \/ \E miss \in SUBSET DOMAIN own.edges, how \in NearMisses :
            LET events == Events(own.edges, miss, how)
                error == IF graph_payload.kind # "graph"
                         THEN Raise("AttributeError", <<"no attribute 'edges'">>)
                         ELSE verify_edge_data(graph_payload, events)
            IN
            /\ graph_payload' = IF error = NoError THEN graph_payload
                                ELSE ErrorPayload(error.message)
            /\ calls' = [calls EXCEPT ![c].pc = "returned",
                                      ![c].events = events,
                                      ![c].fetched = TRUE,
                                      ![c].result = graph_payload']
       \/ /\ graph_payload' = ErrorPayload(<<"fetch failed">>)
          /\ calls' = [calls EXCEPT ![c].pc = "returned",
                                    ![c].result = graph_payload']
    /\ CallsFrame

NextCalls ==
    \/ \E c \in Calls : CallBegins(c)
    \/ \E c \in Calls : CallResumes(c)

SpecCalls == InitCalls /\ [][NextCalls]_vars

\* ===== event fetcher (chain_data/event_fetcher.py, known by its tests and
\* by sections 4.2 and 4.3 of the specification)

\* Strictly increasing boundary tables b0 < b1 < ... : b0 is the lower
\* boundary, group k ends at boundary k, the last group has no boundary of
\* its own.
IsIncreasing(bs) == \A k \in 1..(Len(bs) - 1) : bs[k] < bs[k + 1]

BoundaryTables ==
    {bs \in UNION {[1..n -> 1..MaxBoundary] : n \in 2..MaxBoundary} : IsIncreasing(bs)}

\* Variant of groupOf: a boundary block belongs to the upper group.
groupOfBoundaryAbove(bs, block, current_block) ==
    IF block < bs[1] THEN {}
    ELSE IF \E k \in 2..Len(bs) : block < bs[k]
    THEN {(CHOOSE k \in 2..Len(bs) :
              block < bs[k] /\ \A l \in 2..(k - 1) : ~(block < bs[l])) - 1}
    ELSE IF block <= current_block THEN {Len(bs)}
    ELSE {}

\* group_block(block, current_block): None at or below the lower boundary,
\* the first group whose boundary is not below the block, the last group
\* above all boundaries up to the current block, None beyond it.
groupOf(bs, block, current_block) ==
    IF block <= bs[1] THEN {}
    ELSE IF \E k \in 2..Len(bs) : block <= bs[k]
    THEN {(CHOOSE k \in 2..Len(bs) :
              block <= bs[k] /\ \A l \in 2..(k - 1) : ~(block <= bs[l])) - 1}
    ELSE IF block <= current_block THEN {Len(bs)}
    ELSE {}

\* The inputs of group_block: any block, and a chain head that has passed
\* the historical boundaries.
InitGroup ==
    /\ PipelineIdle
    /\ ClientIdle
    /\ ValidatorIdle
    /\ boundaries \in BoundaryTables
    /\ gblock \in 0..(MaxBoundary + 2)
    /\ ghead \in boundaries[Len(boundaries)]..(MaxBoundary + 1)
    /\ gpc = "none"
    /\ gresult = {}
    /\ finput = <<>>
    /\ fpc = "none"
    /\ fresult = <<>>
    /\ binfo = <<>>
    /\ bfail = {}
    /\ bpc = "none"
    /\ bresult = <<>>
    /\ berror = <<>>
    /\ LifecycleIdle

GroupBlock ==
    /\ gpc = "none"
    /\ boundaries # <<>>
    /\ gresult' = groupOf(boundaries, gblock, ghead)
    /\ gpc' = "returned"
    /\ UNCHANGED <<boundaries, gblock, ghead, finput, fpc, fresult, binfo, bfail,
                   bpc, bresult, berror>>
    /\ UNCHANGED <<pipelineVars, clientVars, validatorVars, lifecycleVars>>

NextGroup ==
    \/ GroupBlock

SpecGroup == InitGroup /\ [][NextGroup]_vars

\* An entry of the numbers argument: an integer or something else.
Integer(n) == [int |-> TRUE, n |-> n]

NonInteger == [int |-> FALSE, n |-> 0]

\* The raw events of a block on the chain; a block can have none.
ChainEvents(block) == IF block % 2 = 0 THEN <<>> ELSE <<block>>

\* Variant of fetch_all_events: entries that are not integers are skipped.
fetch_all_eventsSkipping(bs, numbers, current_block) ==
    [b \in {numbers[k].n : k \in {l \in DOMAIN numbers : numbers[l].int}}
            \cap {b \in 0..(MaxBoundary + 2) : groupOf(bs, b, current_block) # {}}
        |-> ChainEvents(b)]

\* fetch_all_events(block_numbers): the empty map for an empty input or one
\* with an entry that is not an integer; else the events of the distinct
\* blocks that have a group.
fetch_all_events(bs, numbers, current_block) ==
    IF numbers = <<>> \/ \E k \in DOMAIN numbers : ~numbers[k].int
    THEN <<>>
    ELSE [b \in {numbers[k].n : k \in DOMAIN numbers}
                \cap {b \in 0..(MaxBoundary + 2) : groupOf(bs, b, current_block) # {}}
            |-> ChainEvents(b)]

InitFetch ==
    /\ PipelineIdle
    /\ ClientIdle
    /\ ValidatorIdle
    /\ boundaries \in BoundaryTables
    /\ gblock = 0
    /\ ghead = MaxBoundary + 1
    /\ gpc = "none"
    /\ gresult = {}
    /\ finput \in SeqsUpTo({Integer(n) : n \in 0..(MaxBoundary + 2)} \cup {NonInteger},
                            MaxInput)
    /\ fpc = "none"
    /\ fresult = <<>>
    /\ binfo = <<>>
    /\ bfail = {}
    /\ bpc = "none"
    /\ bresult = <<>>
    /\ berror = <<>>
    /\ LifecycleIdle

FetchAllEvents ==
    /\ fpc = "none"
    /\ boundaries # <<>>
    /\ fresult' = fetch_all_events(boundaries, finput, ghead)
    /\ fpc' = "returned"
    /\ UNCHANGED <<boundaries, gblock, ghead, gpc, gresult, finput, binfo, bfail,
                   bpc, bresult, berror>>
    /\ UNCHANGED <<pipelineVars, clientVars, validatorVars, lifecycleVars>>

NextFetch ==
    \/ FetchAllEvents

SpecFetch == InitFetch /\ [][NextFetch]_vars

\* make_payload(block_hash): the request for the events of one block.
make_payload(hash) == <<"payload", hash>>

\* The node's answer to one request: a list whose first element is the events
\* of the block with that hash.
Response(request) == <<<<"event_for", request>>>>

\* _make_rpc_request(payloads): the answers, keyed by request.
make_rpc_request(payloads) == [p \in payloads |-> Response(p)]

Numbers(block_info) == {block_info[k].number : k \in DOMAIN block_info}

RequestPayloads(block_info) == {make_payload(block_info[k].hash) : k \in DOMAIN block_info}

\* The position of a number in block_info.
IndexOf(block_info, number) ==
    CHOOSE k \in DOMAIN block_info : block_info[k].number = number

\* The k-th payload in ascending order of hash.
PayloadAt(block_info, k) ==
    make_payload(CHOOSE h \in {block_info[l].hash : l \in DOMAIN block_info} :
        Cardinality({l \in DOMAIN block_info : block_info[l].hash <= h}) = k)

\* Variant of get_block_events: the k-th answer goes to the k-th block.
get_block_eventsByPosition(block_info) ==
    [n \in Numbers(block_info) |->
        make_rpc_request(RequestPayloads(block_info))
            [PayloadAt(block_info, IndexOf(block_info, n))][1]]

\* get_block_events(substrate, block_info), all blocks preprocessed: each
\* block number gets the answer to the request made from its hash.
get_block_events(block_info) ==
    [n \in Numbers(block_info) |->
        make_rpc_request(RequestPayloads(block_info))
            [make_payload(block_info[IndexOf(block_info, n)].hash)][1]]

PreprocessingFailed == <<"Preprocessing failed">>

\* Pairs of distinct block numbers with distinct hashes.
BlockInfos ==
    {bi \in SeqsUpTo([number : 1..MaxInput, hash : 1..MaxInput], MaxInput) :
        \A k, l \in DOMAIN bi :
            k # l => bi[k].number # bi[l].number /\ bi[k].hash # bi[l].hash}

InitEvents ==
    /\ PipelineIdle
    /\ ClientIdle
    /\ ValidatorIdle
    /\ boundaries = <<>>
    /\ gblock = 0
    /\ ghead = 0
    /\ gpc = "none"
    /\ gresult = {}
    /\ finput = <<>>
    /\ fpc = "none"
    /\ fresult = <<>>
    /\ binfo \in BlockInfos
    /\ bfail \in SUBSET DOMAIN binfo
    /\ bpc = "none"
    /\ bresult = <<>>
    /\ berror = <<>>
    /\ LifecycleIdle

\* One preprocessing failure aborts the batch before any request is sent.
GetBlockEvents ==
    /\ bpc = "none"
    /\ binfo # <<>>
    /\ IF bfail # {}
       THEN /\ bpc' = "raised"
            /\ berror' = PreprocessingFailed
            /\ UNCHANGED bresult
       ELSE /\ bpc' = "returned"
            /\ bresult' = get_block_events(binfo)
            /\ UNCHANGED berror
    /\ UNCHANGED <<boundaries, gblock, ghead, gpc, gresult, finput, fpc, fresult,
                   binfo, bfail>>
    /\ UNCHANGED <<pipelineVars, clientVars, validatorVars, lifecycleVars>>

NextEvents ==
    \/ GetBlockEvents

SpecEvents == InitEvents /\ [][NextEvents]_vars

\* ================================================================ claims
\* _retry_missed_blocks has returned to the for loop of _retry_loop.
BatchOver == lpc = "between" /\ i > 0

BatchBlocks == Range(blocks_to_retry)

\* The three outcomes of a block of the batch.
PersistedAndRemoved(b) == b \in stored /\ b \in removed
ReAddedFetchFailure(b) == b \in addedFF
ReAddedNoEvents(b) == b \in addedNE

Outcomes(b) ==
    (IF PersistedAndRemoved(b) THEN 1 ELSE 0)
        + (IF ReAddedFetchFailure(b) THEN 1 ELSE 0)
        + (IF ReAddedNoEvents(b) THEN 1 ELSE 0)

C2_RemovedIffStored ==
    BatchOver => \A b \in BatchBlocks : (b \in removed <=> b \in stored)

C4_FetchFailedRecorded ==
    BatchOver => missed_blocks \subseteq addedFF

\* C5 as stated: every block that appeared in a flush with zero records is
\* added with reason NO_EVENTS by the end of the batch, and no block that never
\* appeared in a flush is.
C5_NoEventsRecorded ==
    BatchOver =>
        /\ blocks_without_events \subseteq addedNE
        /\ addedNE \subseteq Range(Flatten(flushes))

\* C6: N pairs delivered with buffer size B are flushed as N div B flushes of
\* exactly B pairs and a final flush of N mod B pairs after the end-of-stream
\* marker, every pair exactly once and in order.
C6_ConsumerBuffering ==
    LET N == Len(delivered)
        B == buffer_size
    IN  /\ cpc = "get" => Len(buffer) < B
        /\ cpc \in {"get", "flush", "final"} =>
              /\ \A k \in DOMAIN flushes : Len(flushes[k]) = B
              /\ Flatten(flushes) \o buffer = delivered
        /\ cpc = "done" =>
              /\ Len(flushes) = (N \div B) + 1
              /\ \A k \in 1..(N \div B) : Len(flushes[k]) = B
              /\ Len(flushes[Len(flushes)]) = N % B
              /\ Flatten(flushes) = delivered
              /\ ppc = "done" => delivered = [j \in 1..pidx |-> j]

\* C6 witness: five pairs with buffer size two: two full flushes and a final
\* flush of one pair.
C6_Witness ==
    /\ cpc = "done"
    /\ buffer_size = 2
    /\ Len(delivered) = 5
    /\ Len(flushes) = 3
    /\ Len(flushes[3]) = 1

\* C7 as stated: within a cycle the loop starts the next batch only when the
\* producer task and the consumer task of the previous batch have finished.
C7_BatchesSequential ==
    [][(lpc = "between" /\ lpc' = "gather" /\ i > 0)
          => (ppc \in Finished /\ cpc \in Finished)]_vars

\* C8 as stated: after stop() has returned the loop task has ended and neither
\* the producer task nor the consumer task of the current batch is running.
C8_StopLeavesNothingRunning ==
    (lpc = "done" /\ ~taskRef /\ stopPc = "idle") => LeftRunning = {}

\* C9: start() on a running pipeline leaves the flag, the tracked task and the
\* loop task as they are; stop() on a pipeline that is not running changes
\* nothing.
C9_StartStopIdempotent ==
    /\ [][(Start /\ running) =>
            UNCHANGED <<running, taskRef, stopPc, loopVars, missedStore, prodVars,
                        queue, consVars, orphans>>]_vars
    /\ [][(StopBegin /\ ~running) =>
            UNCHANGED <<running, taskRef, stopPc, loopVars, missedStore, prodVars,
                        queue, consVars, orphans>>]_vars

\* C9 witness: start() was called on a running pipeline whose loop task is in
\* the middle of a batch.
C9_Witness ==
    /\ running
    /\ lastOp = "start_ignored"
    /\ lpc = "gather"

\* C10 as stated: while stop() has not been called a failure inside a batch
\* does not end the pipeline: the running flag stays TRUE and the loop task
\* goes on; only an error of the outer loop (listing) ends it.
C10_BatchFailureKeepsLoop ==
    (taskRef /\ stopPc = "idle" /\ exitCause # "list_error")
        => (running /\ lpc # "done")

\* ---------------------------------------------------------- connection pool
\* A query call that found a pool entry at its first attempt.
FoundEntry(r) == r.used # <<>> /\ r.used[1] # 0

\* C11 as stated: query makes at most max_retries attempts; when every attempt
\* failed it ends with the exhausted-retries error, which carries the error of
\* each of the max_retries attempts in attempt order; when an attempt succeeds
\* its result is returned and nothing more is done.  Stated for calls on a
\* group that has a pool entry.
C11_ExhaustedCarriesAllErrors ==
    \A q \in Queries :
        LET r == qry[q] IN
        FoundEntry(r) =>
            /\ Len(r.used) <= max_retries
            /\ r.pc = "raised" =>
                  /\ r.result = "exhausted"
                  /\ Len(r.errors) = max_retries
                  /\ \A k \in DOMAIN r.errors : r.errors[k][1] = k
            /\ r.pc = "returned" =>
                  /\ r.result = "value"
                  /\ Len(r.used) = Len(r.errors) + 1

C13_LazyCreate ==
    \A q \in Queries :
        \A k \in DOMAIN qry[q].errors : qry[q].errors[k][2] # "lookup"

\* C14 as stated: the keepalive task of a group never ends.
C14_KeepaliveNeverEnds ==
    \A g \in Groups : kpc[g] # "dead"

\* C15: when initialize_connections has completed every group has a pool entry
\* opened at the initial block of that group and one keepalive task has been
\* created for it; when it failed, it failed at the group whose connection
\* could not be created: the groups before it are set up, that group and the
\* groups after it are not.
C15_InitializeConnections ==
    /\ ipc = "done" =>
          \A g \in Groups :
             /\ connections[g] # 0
             /\ sessions[connections[g]].block = groups[g]
             /\ kstarted[g] = 1
    /\ ipc = "failed" =>
          \A g \in Groups :
             /\ g < igroup => (connections[g] # 0 /\ kstarted[g] = 1)
             /\ g >= igroup => (connections[g] = 0 /\ kstarted[g] = 0)

\* C15 witness: initialize_connections has completed for two groups or more,
\* and the keepalive task of a group has since replaced its pool entry.
C15_Witness ==
    /\ ipc = "done"
    /\ MaxGroup >= 2
    /\ \E g \in Groups : connections[g] > MaxGroup

\* C16: validate_payload never raises to its caller: for every payload and
\* target, a failing fetcher or resolver included, the call returns a
\* GraphPayload or an ErrorPayload that carries a message.
C16_NeverRaises ==
    /\ ~vraised
    /\ vpc # "raised"
    /\ vpc = "returned" =>
          \/ vresult.kind = "graph"
          \/ /\ vresult.kind = "error"
             /\ Len(vresult.message) > 1
             /\ vresult.message[1] = "Error: "

\* A call on a payload that passed the first four steps has returned the
\* ErrorPayload of a failed fetch.
C16_Witness ==
    /\ vpc = "returned"
    /\ vsteps = <<"null", "parse", "target", "connected", "edge_data">>
    /\ vresult = ErrorPayload(<<"fetch failed">>)

\* The five steps of validate_payload, stated on the arguments of the call
\* and the events fetched: the payload is not empty, it parses, the target is
\* in the parsed graph, the graph is connected, every parsed edge has its
\* event.
AllStepsPassed ==
    /\ payload.shape \notin {"null", "empty"}
    /\ parse_graph_payload(payload).error = NoError
    /\ find_target(parse_graph_payload(payload).graph, target)
    /\ verify_graph_connected(parse_graph_payload(payload).graph) = NoError
    /\ Len(vsteps) = 5
    /\ \A k \in DOMAIN parse_graph_payload(payload).graph.edges :
          \E ev \in processed_events :
              event_key(ev) = edge_key(parse_graph_payload(payload).graph.edges[k])

\* C17: validate_payload returns the parsed GraphPayload if and only if all
\* five steps passed; otherwise it returns an ErrorPayload that carries a
\* message and no node or edge of the graph.
C17_GraphIffAllStepsPassed ==
    vpc = "returned" =>
        IF AllStepsPassed
        THEN vresult = parse_graph_payload(payload).graph
        ELSE /\ vresult.kind = "error"
             /\ vresult.nodes = <<>>
             /\ vresult.edges = <<>>
             /\ vresult.message # <<>>

\* A call has returned a parsed graph of two edges, all steps passed.
C17_Witness ==
    /\ vpc = "returned"
    /\ AllStepsPassed
    /\ vresult.kind = "graph"
    /\ Len(vresult.edges) = 2

\* The event ev is the ground truth of the claimed edge: the twelve fields
\* of the canonical key agree.
SameFields(edge, ev) ==
    /\ ev.coldkey_source = edge.coldkey_source
    /\ ev.coldkey_destination = edge.coldkey_destination
    /\ ev.coldkey_owner = edge.coldkey_owner
    /\ ev.category = edge.category
    /\ ev.type = edge.type
    /\ ev.evidence.rao_amount = edge.evidence.rao_amount
    /\ ev.evidence.block_number = edge.evidence.block_number
    /\ ev.evidence.destination_net_uid = edge.evidence.destination_net_uid
    /\ ev.evidence.source_net_uid = edge.evidence.source_net_uid
    /\ ev.evidence.alpha_amount = edge.evidence.alpha_amount
    /\ ev.evidence.delegate_hotkey_source = edge.evidence.delegate_hotkey_source
    /\ ev.evidence.delegate_hotkey_destination =
           edge.evidence.delegate_hotkey_destination

\* The call reached the cross-reference step and the events were delivered.
CrossReferenced ==
    /\ vpc = "returned"
    /\ Len(vsteps) = 5
    /\ vresult # ErrorPayload(<<"fetch failed">>)

\* The edges of the parsed graph without an event of the same fields.
Unmatched ==
    {k \in DOMAIN parse_graph_payload(payload).graph.edges :
        \A ev \in processed_events :
            ~SameFields(parse_graph_payload(payload).graph.edges[k], ev)}

\* C18: the cross-reference step passes if and only if every claimed edge of
\* the parsed graph agrees with some fetched event in all the fields of the
\* canonical key; one unmatched edge fails the payload with a message that
\* mentions "edges not found".
C18_CrossReference ==
    CrossReferenced =>
        IF Unmatched = {}
        THEN vresult.kind = "graph"
        ELSE /\ vresult.kind = "error"
             /\ vresult.message[Len(vresult.message)] =
                    " edges not found in on-chain events."

\* A payload of two edges failed for one edge alone, whose only event has
\* another owner.
C18_Witness ==
    /\ CrossReferenced
    /\ Len(parse_graph_payload(payload).graph.edges) = 2
    /\ Cardinality(Unmatched) = 1
    /\ \E k \in Unmatched :
          OtherOwner(parse_graph_payload(payload).graph.edges[k]) \in processed_events
    /\ vresult.kind = "error"

\* The declared node ids, the ids the edges refer to, and the undirected
\* links of the graph: source-destination of every edge and, with an owner,
\* owner-source and owner-destination.
Declared == Range(graph_payload.nodes)

Referenced ==
    UNION {{graph_payload.edges[k].coldkey_source,
            graph_payload.edges[k].coldkey_destination,
            graph_payload.edges[k].coldkey_owner} \ {None} :
           k \in DOMAIN graph_payload.edges}

Links ==
    UNION {{{graph_payload.edges[k].coldkey_source,
             graph_payload.edges[k].coldkey_destination}}
           \cup (IF graph_payload.edges[k].coldkey_owner = None THEN {}
                 ELSE {{graph_payload.edges[k].coldkey_owner,
                        graph_payload.edges[k].coldkey_source},
                       {graph_payload.edges[k].coldkey_owner,
                        graph_payload.edges[k].coldkey_destination}}) :
           k \in DOMAIN graph_payload.edges}

\* The ids reachable from the set S over the links.
RECURSIVE Reach(_)
Reach(S) ==
    IF UNION {l \in Links : l \cap S # {}} \subseteq S THEN S
    ELSE Reach(S \cup UNION {l \in Links : l \cap S # {}})

\* All declared nodes lie in the component of c.
InComponentOf(c) == Declared \subseteq Reach({c})

\* C19 as stated: the connectivity check passes if and only if all declared
\* nodes lie in one connected component of the undirected graph of the links.
C19_OneComponent ==
    vconnected.pc # "none" =>
        (vconnected.pc = "returned" <=>
            \E c \in Declared \cup Referenced : InComponentOf(c))

\* C19, amended: the connectivity check passes if and only if every source,
\* destination and present owner is a declared node and all declared nodes
\* lie in one connected component; declared nodes in several components fail
\* with "not fully connected".
C19_DeclaredAndOneComponent ==
    vconnected.pc # "none" =>
        /\ vconnected.pc = "returned" <=>
              /\ Referenced \subseteq Declared
              /\ \E c \in Declared : InComponentOf(c)
        /\ (Referenced \subseteq Declared /\ ~\E c \in Declared : InComponentOf(c))
              => vconnected.error = Raise("ValueError", <<"Graph is not fully connected.">>)

\* Three declared nodes whose two edges are loops that only share the owner
\* C passed the check.
C19_Witness ==
    /\ vconnected.pc = "returned"
    /\ Declared = NodeIds
    /\ Len(graph_payload.edges) = 2
    /\ \A k \in DOMAIN graph_payload.edges :
          /\ graph_payload.edges[k].coldkey_source =
                 graph_payload.edges[k].coldkey_destination
          /\ graph_payload.edges[k].coldkey_source # "C"
          /\ graph_payload.edges[k].coldkey_owner = "C"

\* The input edge refers to an id that is not the id of a declared node.
RefersToUndeclared(edge) ==
    \/ edge.coldkey_source \notin Range(payload.nodes)
    \/ edge.coldkey_destination \notin Range(payload.nodes)
    \/ edge.coldkey_owner # None /\ edge.coldkey_owner \notin Range(payload.nodes)

\* C20: if the source, the destination or the present owner of any edge of
\* the payload is not the id of a declared node, validate_payload returns an
\* ErrorPayload, whatever the other nodes and edges are.
C20_UndeclaredReferenceFails ==
    (/\ vpc = "returned"
     /\ \E k \in DOMAIN payload.edges : RefersToUndeclared(payload.edges[k]))
        => vresult.kind = "error"

\* The target is the source, the destination or the owner of a parsed edge.
TargetInParsedEdges ==
    \E k \in DOMAIN parse_graph_payload(payload).graph.edges :
        LET edge == parse_graph_payload(payload).graph.edges[k] IN
        \/ edge.coldkey_source = target
        \/ edge.coldkey_destination = target
        \/ edge.coldkey_owner # None /\ edge.coldkey_owner = target

\* C21: for a call with a target address, the target-membership step passes
\* if and only if the target is the source, the destination or the owner of
\* at least one parsed edge; otherwise the call fails with "Target not found".
C21_TargetMembership ==
    (vpc # "none" /\ target # None /\ Len(vsteps) >= 3) =>
        /\ Len(vsteps) >= 4 <=> TargetInParsedEdges
        /\ ~TargetInParsedEdges =>
              vresult = ErrorPayload(<<"Target not found in payload.">>)

\* The step passed for a target that is only the owner of a parsed edge.
C21_Witness ==
    /\ vpc # "none"
    /\ target = "A"
    /\ Len(vsteps) >= 4
    /\ \A k \in DOMAIN parse_graph_payload(payload).graph.edges :
          /\ parse_graph_payload(payload).graph.edges[k].coldkey_source # target
          /\ parse_graph_payload(payload).graph.edges[k].coldkey_destination # target

\* Two nodes of the payload share an id.
SharedId(x, y) == x < y /\ payload.nodes[x] = payload.nodes[y]

\* Two edges of the payload share the key: source, destination, category,
\* type, amount and block number of their evidence.
SharedKey(x, y) ==
    /\ x < y
    /\ ~payload.edges[x].evidence.missing /\ ~payload.edges[y].evidence.missing
    /\ payload.edges[x].coldkey_source = payload.edges[y].coldkey_source
    /\ payload.edges[x].coldkey_destination = payload.edges[y].coldkey_destination
    /\ payload.edges[x].category = payload.edges[y].category
    /\ payload.edges[x].type = payload.edges[y].type
    /\ payload.edges[x].evidence.rao_amount = payload.edges[y].evidence.rao_amount
    /\ payload.edges[x].evidence.block_number = payload.edges[y].evidence.block_number

DuplicateNodes == \E x, y \in DOMAIN payload.nodes : SharedId(x, y)

DuplicateEdges == \E x, y \in DOMAIN payload.edges : SharedKey(x, y)

\* parse_graph_payload raised a duplicate error.
DuplicateError ==
    /\ vparsed.pc = "raised"
    /\ vparsed.error.class = "PayloadValidationError"
    /\ vparsed.error.message[1] \in {"Duplicate node detected: ",
                                      "Duplicate edge detected"}

\* An edge without evidence comes before the second edge of every pair of
\* edges that share the key.
FailsBeforeDuplicate ==
    \A x, y \in DOMAIN payload.edges :
        SharedKey(x, y) =>
            \E k \in 1..(y - 1) : payload.edges[k].evidence.missing

\* C22 as stated: parsing fails with a duplicate error whenever two nodes
\* share an id or two edges share the key, and a payload without such
\* duplicates is not rejected as duplicate.
C22_DuplicatesRejected ==
    vparsed.pc # "none" =>
        (DuplicateError <=> (DuplicateNodes \/ DuplicateEdges))

\* C22, amended: parsing fails whenever two nodes share an id or two edges
\* share the key, with a duplicate error unless it already failed at an
\* earlier edge; a payload without such duplicates is never rejected as
\* duplicate.
C22_DuplicatesRejectedFirstFailure ==
    vparsed.pc # "none" =>
        /\ (DuplicateNodes \/ DuplicateEdges) => vparsed.pc = "raised"
        /\ DuplicateError <=>
              \/ DuplicateNodes
              \/ DuplicateEdges /\ ~FailsBeforeDuplicate

\* Parsing rejected as duplicates two edges that differ in the owner only.
C22_Witness ==
    /\ DuplicateError
    /\ ~DuplicateNodes
    /\ Len(payload.edges) = 2
    /\ payload.edges[1].coldkey_owner # payload.edges[2].coldkey_owner

\* C23: groupOf(b, head) is one group or none: none at or below the lower
\* boundary and above the head; group k strictly above boundary k-1 and at or
\* below boundary k; the last group above the last boundary up to the head.
C23_GroupOf ==
    gpc = "returned" =>
        /\ Cardinality(gresult) <= 1
        /\ (gblock <= boundaries[1] \/ gblock > ghead) => gresult = {}
        /\ \A k \in 1..(Len(boundaries) - 1) :
              (boundaries[k] < gblock /\ gblock <= boundaries[k + 1])
                  => gresult = {k}
        /\ (boundaries[Len(boundaries)] < gblock /\ gblock <= ghead)
              => gresult = {Len(boundaries)}

\* A boundary block between two groups was mapped to the lower group.
C23_Witness ==
    /\ gpc = "returned"
    /\ Len(boundaries) = 3
    /\ gblock = boundaries[2]
    /\ gresult = {1}

\* C24: fetchAllEvents returns the empty map, without partial results, when
\* its input is empty or contains an entry that is not an integer, whatever
\* the other entries are.
C24_EmptyOrNonInteger ==
    (/\ fpc = "returned"
     /\ finput = <<>> \/ \E k \in DOMAIN finput : ~finput[k].int)
        => DOMAIN fresult = {}

\* The call returned the empty map for an input whose second entry is not an
\* integer, between two blocks that have a group and would have been fetched.
C24_Witness ==
    /\ fpc = "returned"
    /\ Len(finput) = 3
    /\ finput[1].int /\ ~finput[2].int /\ finput[3].int
    /\ groupOf(boundaries, finput[1].n, ghead) # {}
    /\ groupOf(boundaries, finput[3].n, ghead) # {}
    /\ DOMAIN fresult = {}

\* C25: in getBlockEvents a preprocessing failure of any block of the batch
\* makes the call fail with PreprocessingFailed and return events for no
\* block; with every block preprocessed, each block number gets the response
\* to the request made from its own hash.
C25_AllOrNothing ==
    /\ (bpc # "none" /\ bfail # {})
           => bpc = "raised" /\ berror = PreprocessingFailed /\ DOMAIN bresult = {}
    /\ (bpc # "none" /\ bfail = {})
           => /\ bpc = "returned"
              /\ DOMAIN bresult = Numbers(binfo)
              /\ \A k \in DOMAIN binfo :
                     bresult[binfo[k].number] = Response(make_payload(binfo[k].hash))[1]

\* A batch of three blocks where only the second block's preprocessing
\* failed: the call raised and no block has events.
C25_Witness ==
    /\ bpc = "raised"
    /\ Len(binfo) = 3
    /\ bfail = {2}
    /\ DOMAIN bresult = {}

\* C26: in each retry cycle the missed-block set read at Listing is processed
\* as batches of at most block_retry_batch_size block numbers (all but the
\* last exactly that many), in ascending order; the batches concatenated in
\* processing order are the sorted set, nothing dropped or repeated, once the
\* cycle has reached its sleep, and a prefix of it before.
C26_Batches ==
    /\ \A x, y \in DOMAIN all_missed_blocks :
           x < y => all_missed_blocks[x] < all_missed_blocks[y]
    /\ (lpc = "between" /\ batches = <<>>) => all_missed_blocks = SortedSeq(missedStore)
    /\ \A k \in DOMAIN batches :
           /\ Len(batches[k]) >= 1
           /\ Len(batches[k]) <= block_retry_batch_size
           /\ k < Len(batches) => Len(batches[k]) = block_retry_batch_size
    /\ Len(Flatten(batches)) <= Len(all_missed_blocks)
    /\ Flatten(batches) = SubSeq(all_missed_blocks, 1, Len(Flatten(batches)))
    /\ lpc = "sleep" => Flatten(batches) = all_missed_blocks

\* A cycle has reached its sleep after a full batch and a shorter last one.
C26_Witness ==
    /\ lpc = "sleep"
    /\ Len(batches) >= 2
    /\ Len(batches[1]) = block_retry_batch_size
    /\ Len(batches[Len(batches)]) < block_retry_batch_size
    /\ Flatten(batches) = all_missed_blocks

\* C27: once the producer of a batch has completed, normally or by failing,
\* the consumer does not stay waiting on the queue: it is never the case that
\* the producer has finished, the queue is empty, the batch has been left by
\* its parent and the consumer is still suspended in queue.get(), a state
\* that no later step of the batch can end.
C27_ConsumerNotStranded ==
    ~(/\ ppc \in {"done", "failed"}
      /\ cpc = "get"
      /\ queue = <<>>
      /\ lpc \notin {"gather", "none"})

\* The loop task ended in the except clause of _retry_loop.
LoopErrors == {"list_error", "requeue_error"}

\* C28: an unexpected exception that reaches the outer retry loop ends the
\* loop with the running flag False, the flag stays False while the loop is
\* ended, and a later start() launches a new loop task instead of being
\* ignored as already running.
C28_FailureAllowsRestart ==
    /\ []((lpc = "done" /\ exitCause \in LoopErrors) => ~running)
    /\ [][(exitCause \notin LoopErrors /\ exitCause' \in LoopErrors)
              => (lpc' = "done" /\ ~running')]_vars
    /\ [][(lpc = "done" /\ exitCause \in LoopErrors /\ Start)
              => (running' /\ taskRef' /\ lpc' = "list" /\ lastOp' # "start_ignored")]_vars

\* Listing the store raised while the pipeline was running and no stop() was
\* in progress: the loop has ended, the flag is False and start() can run.
C28_Witness ==
    /\ lpc = "done"
    /\ exitCause = "list_error"
    /\ ~running
    /\ stopPc = "idle"
    /\ ENABLED Start

\* C29 as stated: across any interleaving of start() and stop(), a start()
\* made while a stop() awaits the cancelled loop included, at most one loop
\* task is alive, every alive loop task is the one self._task refers to, and
\* with running False and no stop() in progress no loop task is alive.
C29_OneTrackedLoop ==
    /\ Cardinality(Alive) <= 1
    /\ \A t \in Alive : t = tracked
    /\ (~running /\ stopPc = "idle") => Alive = {}

\* C30: query for a configured group raises to its caller only after
\* max_retries attempts have been made, and then the exhausted-retries error:
\* no failure of an attempt, of the connection lookup or of the mid-retry
\* reinitialization leaves the call earlier or in another form.
C30_OnlyExhaustedSurfaces ==
    \A q \in Queries :
        qry[q].pc = "raised" =>
            /\ qry[q].result = "exhausted"
            /\ Len(qry[q].used) = max_retries

\* The sessions that are the pool entry of a group.
PoolEntries == {connections[g] : g \in Groups} \ {0}

\* C31: each group has at most one open session at any time: under any
\* interleaving of the keepalive loop and query calls, every session that was
\* opened and is not a pool entry has been closed.
C31_NoSessionLeakedOpen ==
    \A s \in DOMAIN sessions : s \notin PoolEntries => sessions[s].closed

\* C32: whenever the pool entry of a group is replaced, by the keepalive loop
\* or by query, close() has been called on the old session before the entry
\* is overwritten, and the new entry is a session opened by that step, not
\* the old one changed in place.
C32_ClosedBeforeReplaced ==
    [][\A g \in Groups :
          (connections[g] # 0 /\ connections'[g] # connections[g]) =>
              /\ sessions[connections[g]].closed
              /\ Len(sessions') = Len(sessions) + 1
              /\ connections'[g] = Len(sessions')
              /\ ~sessions'[connections'[g]].closed]_vars

\* C33: a session on which close() has been called is never used again: no
\* query attempt is started on a session that is closed, and no keepalive
\* ping is made on one.
C33_ClosedNeverUsed ==
    [][/\ \A q \in Queries :
             Len(qry'[q].used) > Len(qry[q].used) =>
                 \/ qry'[q].used[Len(qry'[q].used)] = 0
                 \/ ~sessions'[qry'[q].used[Len(qry'[q].used)]].closed
       /\ \A g \in Groups :
             (kpc[g] = "ping" /\ kpc'[g] = "reinit") => ~sessions[ksub[g]].closed]_vars

\* C34: the keepalive loop of a group always pings the session that is the
\* pool entry of the group: after a query call has replaced the connection
\* the loop pings the new session.
C34_KeepalivePingsPoolEntry ==
    \A g \in Groups : kpc[g] = "ping" => ksub[g] = connections[g]

\* C35: after failed attempt number k (counted from 1) the back-off delay is
\* 2 * k seconds (8 * k quarters) when the text of the error contains "429"
\* and 0.25 seconds (one quarter) otherwise; a delay follows every failed
\* attempt, the last one included.
C35_BackoffDelays ==
    \A q \in Queries :
        LET r == qry[q] IN
        /\ Len(r.delays) = Len(r.errors)
        /\ \A k \in DOMAIN r.errors :
              r.delays[k] = IF \E l \in DOMAIN r.errors[k][3] : r.errors[k][3][l] = "429"
                            THEN 8 * k
                            ELSE 1
        /\ r.result = "exhausted" => Len(r.delays) = max_retries

\* A call has exhausted three attempts, the second of which was rate limited
\* and the last of which was too.
C35_Witness ==
    \E q \in Queries :
        /\ qry[q].result = "exhausted"
        /\ max_retries = 3
        /\ qry[q].delays = <<1, 16, 24>>

\* C36: with several validate_payload calls in flight on one validator, each
\* call returns what it would return alone for its own payload, target and
\* events: never the GraphPayload or ErrorPayload made for another call.
C36_OwnResult ==
    \A c \in DOMAIN calls :
        calls[c].pc = "returned" =>
            calls[c].result = Alone(calls[c].payload, calls[c].target,
                                    calls[c].events, calls[c].fetched)

\* The steps in their order, and the number of steps that run for the
\* payload and target of the call before one fails (5: none of the first
\* four fails and the fetcher is called).
StepOrder == <<"null", "parse", "target", "connected", "edge_data">>

StepsDue ==
    IF payload.shape \in {"null", "empty"} THEN 1
    ELSE IF parse_graph_payload(payload).error # NoError THEN 2
    ELSE IF ~find_target(parse_graph_payload(payload).graph, target) THEN 3
    ELSE IF verify_graph_connected(parse_graph_payload(payload).graph) # NoError THEN 4
    ELSE 5

\* C37: the steps run in the order null-check, parse, target membership,
\* connectivity, cross-reference and the first failing step ends validation:
\* the steps that ran are the steps up to the first failing one, and the
\* Event Fetcher is called only for a payload that passed the first four.
C37_StepsInOrder ==
    vpc # "none" =>
        /\ vsteps = SubSeq(StepOrder, 1, StepsDue)
        /\ StepsDue < 5 =>
               /\ vpc = "returned"
               /\ vresult.kind = "error"
               /\ block_numbers = <<>>
               /\ processed_events = {}
        /\ vpc = "fetch" => StepsDue = 5

\* A call on a graph that lacks the target and is not connected either has
\* returned after the target step.
C37_Witness ==
    /\ vpc = "returned"
    /\ vsteps = <<"null", "parse", "target">>
    /\ verify_graph_connected(parse_graph_payload(payload).graph) # NoError
    /\ vresult.kind = "error"

\* C38: when parsing succeeds the parsed GraphPayload has one Node per input
\* node and one Edge per input edge: no input edge is left out, whatever its
\* category.
C38_NoEdgeLeftOut ==
    vparsed.pc = "returned" =>
        /\ Len(graph_payload.nodes) = Len(payload.nodes)
        /\ Len(graph_payload.edges) = Len(payload.edges)

\* C39: validate_payload called without a target (target is null) never
\* returns a GraphPayload: for every payload, also one whose edges have no
\* owner, the result is an ErrorPayload.
C39_NoTargetNeverGraph ==
    (vpc = "returned" /\ target = None) => vresult.kind = "error"

====
